---- MODULE Spec2Model ----
(***************************************************************************)
(* RestApiSimulator: the scenario engine (ScenarioEngine, HttpClient,      *)
(* AssertionEngine) and the load test engine (LoadTestEngine) as state     *)
(* machines.                                                               *)
(*                                                                         *)
(* Spec      one execute_scenario call, one action per attempt of a step   *)
(* LoadSpec  one execute_load_test call on a fresh engine, under the       *)
(*           asyncio event loop (a FIFO queue of ready tasks)              *)
(***************************************************************************)
EXTENDS Integers, Sequences, FiniteSets, TLC

\* ------------------------------------------------------------------ bounds

\* Longest scenario explored (Scenario.steps has at least one step).
MaxSteps == 2

\* Largest retry count of a step.
MaxRetry == 1

\* Most parts of a dotted field path.
MaxParts == 2

\* Most bindings of a variable map a text is substituted from.
MaxBindings == 2

\* Most response times a snapshot is computed from (from 21 on, the index of
\* p95 is not the last one).
MaxTimes == 21

\* Most response times of a long list (from 101 on, the index of p99 is not
\* the last one).
MaxLongTimes == 101

\* Largest target_tps and ramp_up_seconds of a load test whose pacing is
\* computed, and the readings of the clock per second.
MaxTargetTps == 4
MaxRampUp == 3
ClockTicks == 2

\* Most instances of the application started at once.
MaxProcesses == 2

\* Most workers one load test dispatches.
MaxWorkers == 2

\* Largest max_concurrent of a LoadTestConfig.
MaxConcurrent == 2

\* Most snapshots the sampler takes.
MaxSamples == 1

\* Polls of the drain loop after which its 30 s have elapsed for certain (300
\* in the code: 30 s at 0.1 s a poll).
DrainPolls == 1

\* ------------------------------------------------- values (JSON-like trees)
\* Every value is a record of the same shape, so that any two compare.
\*   kind "none"  Python None (an absent field, or JSON null)
\*   kind "num"   an integer, in num
\*   kind "str"   a string; kids is its text, a sequence of atoms (a literal
\*                piece, or a "{{name}}" token)
\*   kind "list"  kids is the sequence of elements
\*   kind "dict"  kids is the sequence of items [key, val], in insertion order

None == [kind |-> "none", num |-> 0, kids |-> <<>>]

Num(n) == [kind |-> "num", num |-> n, kids |-> <<>>]

Text(atoms) == [kind |-> "str", num |-> 0, kids |-> atoms]

List(elems) == [kind |-> "list", num |-> 0, kids |-> elems]

Dict(items) == [kind |-> "dict", num |-> 0, kids |-> items]

Item(k, v) == [key |-> k, val |-> v]

\* What an operation that raised hands back instead of a value: the message
\* of the exception.
Raised(msg) == [kind |-> "raise", num |-> 0, kids |-> <<msg>>]

IsRaised(x) == x.kind = "raise"

\* dict.get(k): the value stored under k, None when k is missing.
RECURSIVE items_get(_, _)
items_get(items, k) ==
    IF items = <<>> THEN None
    ELSE IF Head(items).key = k THEN Head(items).val
    ELSE items_get(Tail(items), k)

RECURSIVE items_has(_, _)
items_has(items, k) ==
    IF items = <<>> THEN FALSE
    ELSE Head(items).key = k \/ items_has(Tail(items), k)

\* d[k] = v on a Python dict: an existing key keeps its position, a new key
\* goes last.
RECURSIVE items_set(_, _, _)
items_set(items, k, v) ==
    IF items = <<>> THEN <<Item(k, v)>>
    ELSE IF Head(items).key = k THEN <<Item(k, v)>> \o Tail(items)
    ELSE <<Head(items)>> \o items_set(Tail(items), k, v)

\* dict.update(other): other's items are set in other's order.
RECURSIVE items_update(_, _)
items_update(items, other) ==
    IF other = <<>> THEN items
    ELSE items_update(items_set(items, Head(other).key, Head(other).val), Tail(other))

\* ------------------------------------------------------------ TestStatus

SUCCESS == "success"

FAILURE == "failure"

ERROR == "error"

SKIPPED == "skipped"

TestStatus == {SUCCESS, FAILURE, ERROR, SKIPPED}

\* ------------------------------------------------------- AssertionEngine

\* str.isdigit() is true of the decimal digits and of other Unicode digits
\* such as the superscript two; int() accepts only the former.
DecimalParts == {"0", "1"}

DigitParts == DecimalParts \cup {"sup2"}

part_isdigit(part) == part \in DigitParts

part_int(part) == CASE part = "0" -> 0 [] part = "1" -> 1

\* The walk of get_field_value over the parts of a dotted path.
RECURSIVE field_walk(_, _)
field_walk(current, parts) ==
    IF parts = <<>> THEN current
    ELSE LET part == Head(parts)
             next ==
                 IF current.kind = "dict" THEN items_get(current.kids, part)
                 ELSE IF current.kind = "list" /\ part_isdigit(part)
                      THEN IF part \notin DecimalParts
                           THEN Raised("invalid literal for int()")
                           ELSE IF part_int(part) < Len(current.kids)
                                THEN current.kids[part_int(part) + 1]
                                ELSE None
                      ELSE None
         IN  IF IsRaised(next) \/ next = None THEN next
             ELSE field_walk(next, Tail(parts))

\* get_field_value(data, field_path); field_path is given split on ".".
get_field_value(data, field_path) ==
    IF field_path = <<"status">>
    THEN IF data.kind = "dict" THEN items_get(data.kids, "status")
         ELSE IF data.kind = "num" THEN data ELSE None
    ELSE field_walk(data, field_path)

Returned(b) == [raised |-> FALSE, passed |-> b, msg |-> ""]

Threw(msg) == [raised |-> TRUE, passed |-> FALSE, msg |-> msg]

Operators ==
    {"eq", "ne", "gt", "lt", "gte", "lte", "contains", "not_contains", "in", "not_in",
     "regex", "exists"}

\* "sub in text" on two strings: sub occurs in text.
RECURSIVE str_in(_, _)
str_in(sub, text) ==
    \/ Len(sub) <= Len(text) /\ SubSeq(text, 1, Len(sub)) = sub
    \/ text # <<>> /\ str_in(sub, Tail(text))

\* "item in elems" on a list: some element equals item.
list_in(item, elems) ==
    \E i \in 1..Len(elems) : elems[i].kind = item.kind /\ elems[i] = item

\* The Python string of a text.
RECURSIVE text_of(_)
text_of(atoms) == IF atoms = <<>> THEN "" ELSE Head(atoms) \o text_of(Tail(atoms))

\* "item in container": substring in a string (TypeError if item is no
\* string), membership in a list, key membership in a dict (TypeError if item
\* is not hashable), TypeError in anything else.
py_in(item, container) ==
    CASE container.kind = "str" ->
            IF item.kind = "str" THEN Returned(str_in(item.kids, container.kids))
            ELSE Threw("'in <string>' requires string as left operand")
      [] container.kind = "list" -> Returned(list_in(item, container.kids))
      [] container.kind = "dict" ->
            IF item.kind \in {"list", "dict"} THEN Threw("unhashable type")
            ELSE Returned(item.kind = "str" /\ items_has(container.kids, text_of(item.kids)))
      [] OTHER -> Threw("argument is not iterable")

\* re.match(pattern, string) as a boolean: a pattern of literal characters
\* matches at the start of the string; an unbalanced parenthesis does not
\* compile and raises re.error.
re_match(pattern, string) ==
    IF \E i \in 1..Len(pattern) : pattern[i] = "("
    THEN Threw("missing ), unterminated subpattern")
    ELSE Returned(Len(pattern) <= Len(string) /\ SubSeq(string, 1, Len(pattern)) = pattern)

\* _compare(actual, operator, expected): the boolean returned, or the exception
\* Python raises. The orderings are those of numbers, and of values of
\* different kinds, which raise TypeError (the lexicographic ordering of two
\* strings or two lists is not among the comparisons explored).
compare(actual, operator, expected) ==
    CASE operator = "eq" -> Returned(actual.kind = expected.kind /\ actual = expected)
      [] operator = "ne" -> Returned(~(actual.kind = expected.kind /\ actual = expected))
      [] operator \in {"gt", "lt", "gte", "lte"} ->
            IF actual.kind = "num" /\ expected.kind = "num"
            THEN CASE operator = "gt" -> Returned(actual.num > expected.num)
                   [] operator = "lt" -> Returned(actual.num < expected.num)
                   [] operator = "gte" -> Returned(actual.num >= expected.num)
                   [] operator = "lte" -> Returned(actual.num <= expected.num)
            ELSE Threw("not supported between instances")
      [] operator = "contains" ->
            IF actual.kind \in {"str", "list"} THEN py_in(expected, actual)
            ELSE Returned(FALSE)
      [] operator = "not_contains" ->
            IF actual.kind \in {"str", "list"}
            THEN LET found == py_in(expected, actual)
                 IN  IF found.raised THEN found ELSE Returned(~found.passed)
            ELSE Returned(TRUE)
      [] operator = "in" -> py_in(actual, expected)
      [] operator = "not_in" ->
            LET found == py_in(actual, expected)
            IN  IF found.raised THEN found ELSE Returned(~found.passed)
      [] operator = "regex" ->
            IF actual.kind = "str" /\ expected.kind = "str"
            THEN re_match(expected.kids, actual.kids)
            ELSE Returned(FALSE)
      [] operator = "exists" -> Returned(actual.kind # "none")
      [] OTHER -> Threw("Unknown operator")

\* The message of an assertion degraded by an exception of _compare.
AssertionErrorMessage == "Assertion error"

\* validate_assertion: [raised, passed]. get_field_value is called outside the
\* try block, so its exception leaves validate_assertion; an exception of
\* _compare is caught and makes the assertion fail.
validate_assertion(assertion, status_code, response_body) ==
    LET data == Dict(<<Item("status", Num(status_code)), Item("body", response_body)>>)
        actual_value == get_field_value(data, assertion.field)
    IN  IF IsRaised(actual_value)
        THEN Threw(actual_value.kids[1])
        ELSE LET compared == compare(actual_value, assertion.operator, assertion.value)
             IN  IF compared.raised
                 THEN [raised |-> FALSE, passed |-> FALSE, msg |-> AssertionErrorMessage]
                 ELSE compared

\* The detail entry validate_all appends for an assertion.
detail_of(assertion, one) ==
    [field |-> assertion.field, operator |-> assertion.operator,
     expected |-> assertion.value, passed |-> one.passed, message |-> one.msg]

\* validate_all: the counts and the details over the assertions in order, or
\* the exception that left validate_assertion; degraded counts the assertions
\* evaluated whose comparison raised.
RECURSIVE validate_all(_, _, _)
validate_all(assertions, status_code, response_body) ==
    IF assertions = <<>>
    THEN [raised |-> FALSE, passed |-> 0, failed |-> 0, msg |-> "", details |-> <<>>,
          degraded |-> 0]
    ELSE LET one == validate_assertion(Head(assertions), status_code, response_body)
             rest == validate_all(Tail(assertions), status_code, response_body)
             degraded == IF one.msg = AssertionErrorMessage THEN 1 ELSE 0
         IN  IF one.raised
             THEN [raised |-> TRUE, passed |-> 0, failed |-> 0, msg |-> one.msg,
                   details |-> <<>>, degraded |-> 0]
             ELSE IF rest.raised THEN [rest EXCEPT !.degraded = @ + degraded]
             ELSE [raised |-> FALSE,
                   passed |-> rest.passed + (IF one.passed THEN 1 ELSE 0),
                   failed |-> rest.failed + (IF one.passed THEN 0 ELSE 1),
                   msg |-> "",
                   details |-> <<detail_of(Head(assertions), one)>> \o rest.details,
                   degraded |-> rest.degraded + degraded]

\* ------------------------------------------------------------- HttpClient

\* The "{{key}}" token of a variable.
placeholder(key) == "{{" \o key \o "}}"

\* str(value), as text.
py_str(value) ==
    CASE value.kind = "num" -> <<ToString(value.num)>>
      [] value.kind = "str" -> value.kids
      [] value.kind = "none" -> <<"None">>
      [] OTHER -> <<"<repr>">>

\* text.replace(old, new): every occurrence of the token, in one pass.
RECURSIVE str_replace(_, _, _)
str_replace(text, old, new) ==
    IF text = <<>> THEN <<>>
    ELSE (IF Head(text) = old THEN new ELSE <<Head(text)>>)
         \o str_replace(Tail(text), old, new)

\* _substitute_variables(text, context): the bindings are applied one after
\* the other, in the order of context.items().
RECURSIVE substitute_variables(_, _)
substitute_variables(text, context) ==
    IF context = <<>> THEN text
    ELSE substitute_variables(
             str_replace(text, placeholder(Head(context).key), py_str(Head(context).val)),
             Tail(context))

\* What one HTTP request comes to: a response, or an exception of
\* execute_request (TimeoutError on a timeout, RuntimeError on anything else).
Response(code, body) ==
    [raises |-> FALSE, status_code |-> code, body |-> body, response_time_ms |-> 5,
     error |-> ""]

RequestRaises(msg) ==
    [raises |-> TRUE, status_code |-> 0, body |-> None, response_time_ms |-> 0,
     error |-> msg]

TimeoutMessage == "Request timeout after 30s"

TransportMessage == "Request failed: connection refused"

\* The message of the TypeError of "None > 0".
NoneCompareMessage == "'>' not supported between instances of 'NoneType' and 'int'"

\* HttpClient.execute_step(step, variables) when the request comes to outcome:
\*   raised, msg   whether it raises, and the message
\*   did           what it did, in order
\*   substituted   whether it substituted (and so sent a request)
\* The delays are Optional[float]: comparing None with 0 raises TypeError.
execute_step(step, context, outcome) ==
    IF step.delay_before = None
    THEN [raised |-> TRUE, msg |-> NoneCompareMessage, did |-> <<>>, substituted |-> FALSE]
    ELSE LET sent == (IF step.delay_before.num > 0 THEN <<"delay_before">> ELSE <<>>)
                     \o <<"substitute", "request">>
         IN  IF outcome.raises
             THEN [raised |-> TRUE, msg |-> outcome.error, did |-> sent, substituted |-> TRUE]
             ELSE IF step.delay_after = None
             THEN [raised |-> TRUE, msg |-> NoneCompareMessage,
                   did |-> sent \o <<"response">>, substituted |-> TRUE]
             ELSE [raised |-> FALSE, msg |-> "",
                   did |-> sent \o <<"response">>
                           \o (IF step.delay_after.num > 0 THEN <<"delay_after">> ELSE <<>>),
                   substituted |-> TRUE]

\* ------------------------------------------------------- inputs explored

StatusEq200 == [field |-> <<"status">>, operator |-> "eq", value |-> Num(200)]

BodyIdExists == [field |-> <<"body", "id">>, operator |-> "exists", value |-> None]

ExtractToken == <<Item("token", <<"body", "id">>)>>

\* An ordering of body.id with a text: _compare raises TypeError.
BodyIdGtText == [field |-> <<"body", "id">>, operator |-> "gt", value |-> Text(<<"x">>)]

\* An assertion on a field path whose second part is a Unicode digit that is
\* not decimal.
BodySup2Exists == [field |-> <<"body", "sup2">>, operator |-> "exists", value |-> None]

\* An extraction path whose second part is a Unicode digit that is not decimal.
ExtractSup2 == <<Item("token", <<"body", "sup2">>)>>

ThePath == <<"/items/", "{{token}}">>

Step(retry, skip, assertions, extract, delays) ==
    [name |-> 0, path |-> ThePath, retry |-> retry, skip_on_failure |-> skip,
     assertions |-> assertions, extract |-> extract,
     delay_before |-> delays[1], delay_after |-> delays[2]]

NoDelays == <<Num(0), Num(0)>>

\* A step without assertions, which stops the scenario if it fails.
Unasserted == Step(0, FALSE, <<>>, <<>>, NoDelays)

\* The steps of the scenarios of several steps: without retry or with the
\* most retries, stopping or continuing on failure, extracting or not; and a
\* step without assertions.
ChainSteps ==
    { Step(r, k, <<StatusEq200>>, e, NoDelays) :
        r \in {0, MaxRetry}, k \in BOOLEAN, e \in {<<>>, ExtractToken} }
    \cup {Unasserted}

\* The steps of the scenarios of one step: the values the ScenarioStep model
\* accepts that the chains leave out (retry is an unconstrained integer, the
\* delays are Optional[float]).
ProbeSteps ==
    { Step(r, FALSE, a, e, d) :
        r \in (-1)..MaxRetry,
        a \in {<<>>, <<StatusEq200>>, <<StatusEq200, BodyIdExists>>,
               <<BodyIdGtText, StatusEq200>>, <<BodyIdGtText, BodySup2Exists>>},
        e \in {<<>>, ExtractToken, ExtractSup2},
        d \in {NoDelays, <<Num(1), Num(1)>>, <<None, Num(0)>>, <<Num(0), None>>} }

\* Steps are named by their position, so that a result names its step.
Named(steps) == [i \in 1..Len(steps) |-> [steps[i] EXCEPT !.name = i]]

RECURSIVE SeqsOf(_, _)
SeqsOf(S, n) ==
    IF n = 0 THEN {<<>>}
    ELSE { Append(s, x) : s \in SeqsOf(S, n - 1), x \in S }

InitialVariables == {<<>>, <<Item("token", Num(0))>>}

\* The scenarios of several steps start with token bound and report their
\* progress; the scenarios of one step also start unbound, or without a
\* progress callback.
ChainScenarios ==
    { [variables |-> <<Item("token", Num(0))>>, steps |-> Named(s)] :
        s \in UNION { SeqsOf(ChainSteps, n) : n \in 2..MaxSteps } }

ProbeScenarios ==
    { [variables |-> v, steps |-> Named(<<s>>)] :
        v \in InitialVariables, s \in ProbeSteps }

Scenarios == ChainScenarios \cup ProbeScenarios

Bodies ==
    {Dict(<<Item("id", Num(1))>>), Dict(<<Item("id", Num(2))>>), Text(<<"oops">>),
     List(<<Num(7)>>), Dict(<<Item("id", None)>>)}

ErrorMessages == {TimeoutMessage, TransportMessage}

Outcomes ==
    { Response(c, b) : c \in {200, 500}, b \in Bodies }
    \cup { RequestRaises(m) : m \in ErrorMessages }

\* -------------------------------------------------------- ScenarioEngine

VARIABLES
    scenario,         \* the Scenario executed (an input, never changed)
    progress_callback, \* whether a progress callback was passed
    pc,               \* where execute_scenario stands
    idx,              \* 1-based index of the step of the for loop
    variables,        \* the execution context
    steps_results,    \* the StepResults appended so far
    scenario_status,
    attempts,         \* _execute_step: step.retry + 1
    attempt,          \* _execute_step: the loop variable
    last_error,
    result,           \* the ScenarioResult returned (valid when pc = "done")
    events,           \* what the step did so far, in order; each attempt ends
                      \* with what it came to: "success", "failure", or the
                      \* message of its exception
    request_context,  \* the context of the latest substitution
    request_path,     \* the path of the latest request, as sent
    progress_log,     \* the progress notifications, in order
    comparison_raised \* whether _compare raised in an attempt of the step

svars == <<scenario, progress_callback, pc, idx, variables, steps_results,
           scenario_status, attempts, attempt, last_error, result, events,
           request_context, request_path, progress_log, comparison_raised>>

\* --------------------------------------------------------- LoadTestEngine

VARIABLES
    config,               \* the LoadTestConfig (an input, never changed)
    total_requests,
    successful_requests,
    failed_requests,
    error_requests,
    response_times,       \* list of float
    status_codes,         \* status code -> count
    errors,               \* error message -> count
    active_tasks,
    metrics_history,      \* the snapshots, in order
    load_result,          \* the LoadTestResult returned (valid when main_pc = "done")
    ready,                \* the event loop's queue of tasks ready to run
    main_pc,              \* where execute_load_test stands
    gen_pc,               \* where _generate_load stands
    gen_cancel,           \* generator_task.cancel() was called
    sampler_pc,           \* where _collect_metrics stands
    sampler_cancel,       \* metrics_task.cancel() was called
    worker,               \* per worker task: where it stands
    dispatched,           \* worker tasks created so far
    drain_polls,          \* sleeps of the drain loop so far
    finished,             \* what the scenario executions of the workers
                          \* finished so far came to, in order
    tick_skipped,         \* the generator sleeps after an iteration that
                          \* created no worker task
    run_start             \* worker tasks created before the metrics were
                          \* last reset

lvars == <<config, total_requests, successful_requests, failed_requests,
           error_requests, response_times, status_codes, errors, active_tasks,
           metrics_history, load_result, ready, main_pc, gen_pc, gen_cancel,
           sampler_pc, sampler_cancel, worker, dispatched, drain_polls,
           finished, tick_skipped, run_start>>

\* ------------------------------------------ concurrent scenario executions

VARIABLES
    contexts,             \* the dict objects: that of scenario.variables (object
                          \* 0) and those the executions made
    executions            \* per worker: where its execute_scenario stands, the
                          \* dict object its `variables` refers to, the context
                          \* its last request was substituted from, and the
                          \* bindings it made itself

cvars == <<contexts, executions>>

\* ------------------------------------------------ calls of pure functions

VARIABLES
    call,                 \* a call of a function of the program: its name and
                          \* its arguments
    returned              \* what the call returned, or the exception it raised

pvars == <<call, returned>>

\* ------------------------------------------------------------ process lock

VARIABLES
    lock_file,            \* the lock file .app.lock: whether it exists, and its
                          \* text (<<>>: no text; <<n>>: the digits of pid n)
    lock_pc,              \* where each process stands in ProcessLock
    old_pid               \* the pid each process read from the lock file

kvars == <<lock_file, lock_pc, old_pid>>

vars == <<svars, lvars, cvars, pvars, kvars>>

NoResult ==
    [status |-> "", steps |-> <<>>, variables |-> <<>>, total_requests |-> 0,
     successful_requests |-> 0, failed_requests |-> 0, error_requests |-> 0]

StepResult(step, status, code, time_ms, error, passed, failed, details, extracted) ==
    [assertion_details |-> details, step_name |-> step.name, url |-> step.path, status |-> status,
     status_code |-> code, response_time_ms |-> time_ms,
     error_message |-> error, assertions_passed |-> passed,
     assertions_failed |-> failed, extracted_variables |-> extracted]

\* extracted_after, had the value been stored whether absent or not.
extracted_absent_too(extracted_vars, var_name, value) ==
    items_update(<<Item(var_name, value)>>, extracted_vars)

\* if value is not None: extracted_vars[var_name] = value, before the
\* extractions extracted_vars holds, which follow it in the loop.
extracted_after(extracted_vars, var_name, value) ==
    IF value # None
    THEN items_update(<<Item(var_name, value)>>, extracted_vars)
    ELSE extracted_vars

\* The extraction loop of _execute_step: the extracted dict, or the exception
\* of get_field_value.
RECURSIVE extract_variables(_, _)
extract_variables(extract, response_body) ==
    IF extract = <<>> THEN [raised |-> FALSE, vars |-> <<>>, msg |-> ""]
    ELSE LET value == get_field_value(Dict(<<Item("body", response_body)>>),
                                      Head(extract).val)
             rest == extract_variables(Tail(extract), response_body)
         IN  IF IsRaised(value) THEN [raised |-> TRUE, vars |-> <<>>, msg |-> value.kids[1]]
             ELSE IF rest.raised THEN rest
             ELSE [raised |-> FALSE,
                   vars |-> extracted_after(rest.vars, Head(extract).key, value),
                   msg |-> ""]

\* The status an attempt gives a response.
attempt_status(assertions_failed) ==
    IF assertions_failed > 0 THEN FAILURE ELSE SUCCESS

\* The try block of _execute_step after the response arrived: the StepResult
\* returned, or the exception raised on the way.
process_response(step, response) ==
    LET validated ==
            IF step.assertions # <<>>
            THEN validate_all(step.assertions, response.status_code, response.body)
            ELSE [raised |-> FALSE, passed |-> 0, failed |-> 0, msg |-> "",
                  details |-> <<>>, degraded |-> 0]
        extracted == extract_variables(step.extract, response.body)
        validation == IF step.assertions # <<>> THEN <<"validate">> ELSE <<>>
        extraction == IF step.extract # <<>> THEN <<"extract">> ELSE <<>>
    IN  IF validated.raised
        THEN [raised |-> TRUE, msg |-> validated.msg, step_result |-> NoResult,
              did |-> validation, degraded |-> validated.degraded]
        ELSE IF extracted.raised
        THEN [raised |-> TRUE, msg |-> extracted.msg, step_result |-> NoResult,
              did |-> validation \o extraction, degraded |-> validated.degraded]
        ELSE [raised |-> FALSE, msg |-> "", did |-> validation \o extraction,
              degraded |-> validated.degraded,
              step_result |->
                  StepResult(step, attempt_status(validated.failed),
                             response.status_code, response.response_time_ms, "None",
                             validated.passed, validated.failed, validated.details,
                             extracted.vars)]

\* progress_args, had the index been the 0-based one of the list.
progress_args_zero_based(step, index, total_steps) == <<step.name, index - 1, total_steps>>

\* The arguments of progress_callback(step.name, idx, total_steps); index is
\* the index of enumerate(scenario.steps, 1).
progress_args(step, index, total_steps) == <<step.name, index, total_steps>>

\* attempts_of, had one attempt too many been allowed.
attempts_of_one_more(step) == step.retry + 2

\* attempts = step.retry + 1
attempts_of(step) == step.retry + 1

\* sleeps_before_retry, had the sleep followed the last attempt too.
sleeps_after_every_attempt(n, total) == n < total

\* Whether the except block sleeps: not after the last attempt.
sleeps_before_retry(n, total) == n < total - 1

\* The StepResult returned after the attempt loop ended without a return.
error_result(step, message) ==
    StepResult(step, ERROR, 0, 0, message, 0, 0, <<>>, <<>>)

\* The scenario status after a step result.
next_status(status, step_status) ==
    IF step_status = FAILURE THEN FAILURE
    ELSE IF step_status = ERROR THEN ERROR
    ELSE status

\* breaks, had the break been written for an error alone.
breaks_on_error_only(step, step_status) ==
    step_status = ERROR /\ ~step.skip_on_failure

\* breaks, had skip_on_failure been ignored.
breaks_always(step, step_status) ==
    step_status \in {FAILURE, ERROR}

\* Whether the for loop of execute_scenario breaks after a step result.
breaks(step, step_status) ==
    step_status \in {FAILURE, ERROR} /\ ~step.skip_on_failure

\* merged, had the update of the context been left out.
merged_dropped(context, step_result) == context

\* The context after a step result.
merged(context, step_result) ==
    IF step_result.extracted_variables # <<>>
    THEN items_update(context, step_result.extracted_variables)
    ELSE context

\* execute_scenario, from the return of _execute_step to the next iteration
\* of the for loop (or to its end).
AfterStep(step_result) ==
    LET step == scenario.steps[idx]
    IN  /\ steps_results' = Append(steps_results, step_result)
        /\ variables' = merged(variables, step_result)
        /\ scenario_status' = next_status(scenario_status, step_result.status)
        /\ IF breaks(step, step_result.status) \/ idx = Len(scenario.steps)
           THEN pc' = "return" /\ idx' = idx
           ELSE pc' = "loop" /\ idx' = idx + 1

\* The for loop of execute_scenario reaches a step: the progress notification,
\* then _execute_step up to its attempt loop.  With no attempt to make
\* (range(attempts) is empty) _execute_step returns at once.
StartStep ==
    /\ pc = "loop"
    /\ LET step == scenario.steps[idx]
       IN  /\ progress_log' =
                  IF progress_callback
                  THEN Append(progress_log, progress_args(step, idx, Len(scenario.steps)))
                  ELSE progress_log
           /\ attempts' = attempts_of(step)
           /\ attempt' = 0
           /\ last_error' = "None"
           /\ events' = <<>>
           /\ comparison_raised' = FALSE
           /\ IF attempts_of(step) > 0
              THEN /\ pc' = "attempt"
                   /\ UNCHANGED <<idx, variables, steps_results, scenario_status>>
              ELSE AfterStep(error_result(step, "None"))
    /\ UNCHANGED <<scenario, progress_callback, result, request_context, request_path>>
    /\ UNCHANGED <<lvars, cvars, pvars, kvars>>

\* The except block of _execute_step up to its sleep; without a sleep, on to
\* the next attempt or, after the last, to the return that follows the loop.
OnException(step, message) ==
    /\ last_error' = message
    /\ IF sleeps_before_retry(attempt, attempts)
       THEN /\ pc' = "backoff"
            /\ UNCHANGED <<idx, variables, steps_results, scenario_status, attempt>>
       ELSE IF attempt + 1 < attempts
       THEN /\ pc' = "attempt"
            /\ attempt' = attempt + 1
            /\ UNCHANGED <<idx, variables, steps_results, scenario_status>>
       ELSE /\ AfterStep(error_result(step, message))
            /\ UNCHANGED attempt

\* What an attempt leaves in request_context and request_path.
Substituted(step, called) ==
    IF called.substituted
    THEN /\ request_context' = variables
         /\ request_path' = substitute_variables(step.path, variables)
    ELSE UNCHANGED <<request_context, request_path>>

\* One attempt in which HttpClient.execute_step raises.
AttemptRaises ==
    /\ pc = "attempt"
    /\ \E outcome \in Outcomes :
         LET step == scenario.steps[idx]
             called == execute_step(step, variables, outcome)
         IN  /\ called.raised
             /\ events' = events \o called.did \o <<called.msg>>
             /\ Substituted(step, called)
             /\ OnException(step, called.msg)
    /\ UNCHANGED <<scenario, progress_callback, attempts, result, progress_log,
                   comparison_raised>>
    /\ UNCHANGED <<lvars, cvars, pvars, kvars>>

\* One attempt in which HttpClient.execute_step returns a response.
AttemptResponds ==
    /\ pc = "attempt"
    /\ \E outcome \in Outcomes :
       \E step \in {scenario.steps[idx]} :
       \E called \in {execute_step(step, variables, outcome)} :
       \E processed \in {process_response(step, outcome)} :
             /\ ~called.raised
             /\ Substituted(step, called)
             /\ comparison_raised' = (comparison_raised \/ processed.degraded > 0)
             /\ IF processed.raised
                THEN /\ events' = events \o called.did \o processed.did \o <<processed.msg>>
                     /\ OnException(step, processed.msg)
                ELSE /\ events' = events \o called.did \o processed.did
                                     \o <<processed.step_result.status>>
                     /\ AfterStep(processed.step_result)
                     /\ UNCHANGED <<last_error, attempt>>
    /\ UNCHANGED <<scenario, progress_callback, attempts, result, progress_log>>
    /\ UNCHANGED <<lvars, cvars, pvars, kvars>>

\* The one-second sleep of the except block, then the next iteration of the
\* attempt loop, or the return that follows the loop.
Backoff ==
    /\ pc = "backoff"
    /\ events' = Append(events, "sleep")
    /\ IF attempt + 1 < attempts
       THEN /\ pc' = "attempt"
            /\ attempt' = attempt + 1
            /\ UNCHANGED <<idx, variables, steps_results, scenario_status>>
       ELSE /\ AfterStep(error_result(scenario.steps[idx], last_error))
            /\ UNCHANGED attempt
    /\ UNCHANGED <<scenario, progress_callback, attempts, last_error, result,
                   request_context, request_path, progress_log, comparison_raised>>
    /\ UNCHANGED <<lvars, cvars, pvars, kvars>>

count_status(results, status) ==
    Cardinality({i \in 1..Len(results) : results[i].status = status})

\* scenario_result, had total_requests been the number of scenario steps.
scenario_result_all_steps ==
    [status |-> scenario_status, steps |-> steps_results, variables |-> variables,
     total_requests |-> Len(scenario.steps),
     successful_requests |-> count_status(steps_results, SUCCESS),
     failed_requests |-> count_status(steps_results, FAILURE),
     error_requests |-> count_status(steps_results, ERROR)]

\* The statistics and the ScenarioResult of execute_scenario.
scenario_result ==
    [status |-> scenario_status, steps |-> steps_results, variables |-> variables,
     total_requests |-> Len(steps_results),
     successful_requests |-> count_status(steps_results, SUCCESS),
     failed_requests |-> count_status(steps_results, FAILURE),
     error_requests |-> count_status(steps_results, ERROR)]

Return ==
    /\ pc = "return"
    /\ result' = scenario_result
    /\ pc' = "done"
    /\ UNCHANGED <<scenario, progress_callback, idx, variables, steps_results,
                   scenario_status, attempts, attempt, last_error, events,
                   request_context, request_path, progress_log, comparison_raised>>
    /\ UNCHANGED <<lvars, cvars, pvars, kvars>>

\* The state when execute_scenario is entered.
ScenarioInit ==
    /\ scenario \in Scenarios
    /\ progress_callback \in BOOLEAN
    /\ scenario \in ChainScenarios => progress_callback
    /\ pc = "loop"
    /\ idx = 1
    /\ variables = scenario.variables
    /\ steps_results = <<>>
    /\ scenario_status = SUCCESS
    /\ attempts = 0
    /\ attempt = 0
    /\ last_error = "None"
    /\ result = NoResult
    /\ events = <<>>
    /\ request_context = <<>>
    /\ request_path = <<>>
    /\ progress_log = <<>>
    /\ comparison_raised = FALSE

\* ------------------------------------------------- LoadTestEngine, cont.

Workers == 1..MaxWorkers

TaskOf(w) == "w" \o ToString(w)

StatusCodes == {200, 500}

LoadErrorMessages == {TimeoutMessage, "boom"}

\* What the scenario execution of a worker comes to: a ScenarioResult (its
\* status, and of each step the response time, status code and error
\* message), or an exception.
Executed(status, steps) == [raised |-> FALSE, status |-> status, steps |-> steps, msg |-> ""]

ExecutionRaised(msg) == [raised |-> TRUE, status |-> "", steps |-> <<>>, msg |-> msg]

StepOf(response_time_ms, status_code, error_message) ==
    [response_time_ms |-> response_time_ms, status_code |-> status_code,
     error_message |-> error_message]

Executions ==
    {Executed(SUCCESS, <<StepOf(5, 200, "None")>>),
     Executed(FAILURE, <<StepOf(5, 200, "None"), StepOf(7, 500, "None")>>),
     Executed(ERROR, <<StepOf(0, 0, TimeoutMessage)>>),
     ExecutionRaised("boom")}

NoLoadResult ==
    [total_requests |-> 0, successful_requests |-> 0, failed_requests |-> 0,
     error_requests |-> 0, success_rate |-> [num |-> 0, den |-> 1],
     response_times |-> <<>>, status_code_distribution |-> [c \in StatusCodes |-> 0],
     error_distribution |-> [m \in LoadErrorMessages |-> 0],
     metrics_timeline |-> <<>>]

\* The engine after __init__, and execute_load_test about to be called.
LoadInit ==
    /\ config \in [max_concurrent : 1..MaxConcurrent]
    /\ total_requests = 0
    /\ successful_requests = 0
    /\ failed_requests = 0
    /\ error_requests = 0
    /\ response_times = <<>>
    /\ status_codes = [c \in StatusCodes |-> 0]
    /\ errors = [m \in LoadErrorMessages |-> 0]
    /\ active_tasks = 0
    /\ metrics_history = <<>>
    /\ load_result = NoLoadResult
    /\ ready = <<"main">>
    /\ main_pc = "start"
    /\ gen_pc = "none"
    /\ gen_cancel = FALSE
    /\ sampler_pc = "none"
    /\ sampler_cancel = FALSE
    /\ worker = [w \in Workers |-> "none"]
    /\ dispatched = 0
    /\ drain_polls = 0
    /\ finished = <<>>
    /\ tick_skipped = FALSE
    /\ run_start = 0

\* The scenario engine at rest, in the behaviours of the load test.
ScenarioIdle ==
    /\ scenario = [variables |-> <<>>, steps |-> Named(<<Step(0, FALSE, <<>>, <<>>, NoDelays)>>)]
    /\ progress_callback = FALSE
    /\ pc = "done"
    /\ idx = 1
    /\ variables = <<>>
    /\ steps_results = <<>>
    /\ scenario_status = SUCCESS
    /\ attempts = 0
    /\ attempt = 0
    /\ last_error = "None"
    /\ result = NoResult
    /\ events = <<>>
    /\ request_context = <<>>
    /\ request_path = <<>>
    /\ progress_log = <<>>
    /\ comparison_raised = FALSE

\* The load engine at rest, in the behaviours of one scenario execution.
LoadIdle ==
    /\ config = [max_concurrent |-> 1]
    /\ total_requests = 0
    /\ successful_requests = 0
    /\ failed_requests = 0
    /\ error_requests = 0
    /\ response_times = <<>>
    /\ status_codes = [c \in StatusCodes |-> 0]
    /\ errors = [m \in LoadErrorMessages |-> 0]
    /\ active_tasks = 0
    /\ metrics_history = <<>>
    /\ load_result = NoLoadResult
    /\ ready = <<>>
    /\ main_pc = "none"
    /\ gen_pc = "none"
    /\ gen_cancel = FALSE
    /\ sampler_pc = "none"
    /\ sampler_cancel = FALSE
    /\ worker = [w \in Workers |-> "none"]
    /\ dispatched = 0
    /\ drain_polls = 0
    /\ finished = <<>>
    /\ tick_skipped = FALSE
    /\ run_start = 0

\* The event loop runs the task at the head of its queue.
Runs(task) == ready # <<>> /\ Head(ready) = task

\* execute_load_test up to its sleep: the metrics are reset, the sampler and
\* the generator tasks are created, in this order.
MainStarts ==
    /\ Runs("main")
    /\ main_pc = "start"
    /\ total_requests' = 0
    /\ successful_requests' = 0
    /\ failed_requests' = 0
    /\ error_requests' = 0
    /\ response_times' = <<>>
    /\ status_codes' = [c \in StatusCodes |-> 0]
    /\ errors' = [m \in LoadErrorMessages |-> 0]
    /\ active_tasks' = 0
    /\ metrics_history' = <<>>
    /\ sampler_pc' = "created"
    /\ gen_pc' = "created"
    /\ ready' = Tail(ready) \o <<"sampler", "gen">>
    /\ main_pc' = "sleeping"
    /\ run_start' = dispatched
    /\ UNCHANGED <<config, finished, load_result, gen_cancel, sampler_cancel, worker,
                   dispatched, drain_polls, tick_skipped>>
    /\ UNCHANGED <<svars, cvars, pvars, kvars>>

\* duration_seconds have elapsed: the sleep of execute_load_test ends.
DurationElapses ==
    /\ main_pc = "sleeping"
    /\ main_pc' = "woken"
    /\ ready' = Append(ready, "main")
    /\ UNCHANGED <<config, finished, total_requests, successful_requests, failed_requests,
                   error_requests, response_times, status_codes, errors,
                   active_tasks, metrics_history, load_result, gen_pc, gen_cancel,
                   sampler_pc, sampler_cancel, worker, dispatched, drain_polls,
                   tick_skipped, run_start>>
    /\ UNCHANGED <<svars, cvars, pvars, kvars>>

cancel_leaves_asleep(task_pc) == FALSE

\* task.cancel() on a task of the given state: a task suspended in its sleep
\* is made ready (its sleep is cancelled); a task already in the queue stays
\* where it is.  Either way it is resumed with CancelledError.
cancel_enqueues(task_pc) == task_pc = "sleeping"

\* generator_task.cancel(), then await generator_task.
MainCancelsGenerator ==
    /\ Runs("main")
    /\ main_pc = "woken"
    /\ gen_cancel' = TRUE
    /\ ready' = IF cancel_enqueues(gen_pc) THEN Tail(ready) \o <<"gen">> ELSE Tail(ready)
    /\ gen_pc' = IF cancel_enqueues(gen_pc) THEN "ready" ELSE gen_pc
    /\ main_pc' = "await_generator"
    /\ UNCHANGED <<config, finished, total_requests, successful_requests, failed_requests,
                   error_requests, response_times, status_codes, errors,
                   active_tasks, metrics_history, load_result,
                   sampler_pc, sampler_cancel, worker, dispatched, drain_polls,
                   tick_skipped, run_start>>
    /\ UNCHANGED <<svars, cvars, pvars, kvars>>

resumes_despite_cancel(cancel_requested) == TRUE

\* Whether a task resumed by the event loop goes on from its await: not when
\* cancel() was called on it, for then CancelledError is raised at the await.
resumes_normally(cancel_requested) == ~cancel_requested

may_dispatch_at_cap(active, max_concurrent) == active <= max_concurrent

\* The guard of the dispatch in _generate_load.
may_dispatch(active, max_concurrent) == active < max_concurrent

\* One iteration of the loop of _generate_load, up to its sleep: a worker
\* task is created when the in-flight counter is below max_concurrent.
GeneratorTicks ==
    /\ Runs("gen")
    /\ gen_pc \in {"created", "ready"}
    /\ resumes_normally(gen_cancel)
    /\ IF may_dispatch(active_tasks, config.max_concurrent)
       THEN /\ dispatched' = dispatched + 1
            /\ worker' = [worker EXCEPT ![dispatched + 1] = "created"]
            /\ ready' = Tail(ready) \o <<TaskOf(dispatched + 1)>>
       ELSE /\ ready' = Tail(ready)
            /\ UNCHANGED <<dispatched, worker>>
    /\ gen_pc' = "sleeping"
    /\ tick_skipped' = ~may_dispatch(active_tasks, config.max_concurrent)
    /\ UNCHANGED run_start
    /\ UNCHANGED <<config, finished, total_requests, successful_requests, failed_requests,
                   error_requests, response_times, status_codes, errors,
                   active_tasks, metrics_history, load_result, main_pc, gen_cancel,
                   sampler_pc, sampler_cancel, drain_polls>>
    /\ UNCHANGED <<svars, cvars, pvars, kvars>>

\* The pacing sleep of the generator ends (while worker tasks are left to
\* dispatch within MaxWorkers).
GeneratorWakes ==
    /\ gen_pc = "sleeping"
    /\ dispatched < MaxWorkers
    /\ gen_pc' = "ready"
    /\ tick_skipped' = FALSE
    /\ UNCHANGED run_start
    /\ ready' = Append(ready, "gen")
    /\ UNCHANGED <<config, finished, total_requests, successful_requests, failed_requests,
                   error_requests, response_times, status_codes, errors,
                   active_tasks, metrics_history, load_result, main_pc, gen_cancel,
                   sampler_pc, sampler_cancel, worker, dispatched, drain_polls>>
    /\ UNCHANGED <<svars, cvars, pvars, kvars>>

\* The generator is resumed with CancelledError, which it swallows: the task
\* ends and execute_load_test, which awaits it, is made ready.
GeneratorCancelled ==
    /\ Runs("gen")
    /\ gen_cancel
    /\ gen_pc' = "done"
    /\ tick_skipped' = FALSE
    /\ UNCHANGED run_start
    /\ ready' = Tail(ready) \o <<"main">>
    /\ main_pc' = "drain"
    /\ UNCHANGED <<config, finished, total_requests, successful_requests, failed_requests,
                   error_requests, response_times, status_codes, errors,
                   active_tasks, metrics_history, load_result, gen_cancel,
                   sampler_pc, sampler_cancel, worker, dispatched, drain_polls>>
    /\ UNCHANGED <<svars, cvars, pvars, kvars>>

\* The first step of a worker task: the in-flight counter is incremented and
\* the scenario execution starts, up to its first suspension.
WorkerStarts(w) ==
    /\ Runs(TaskOf(w))
    /\ worker[w] = "created"
    /\ active_tasks' = active_tasks + 1
    /\ worker' = [worker EXCEPT ![w] = "in_flight"]
    /\ ready' = Tail(ready)
    /\ UNCHANGED <<config, finished, total_requests, successful_requests, failed_requests,
                   error_requests, response_times, status_codes, errors,
                   metrics_history, load_result, main_pc, gen_pc, gen_cancel,
                   sampler_pc, sampler_cancel, dispatched, drain_polls, tick_skipped, run_start>>
    /\ UNCHANGED <<svars, cvars, pvars, kvars>>

\* The last suspension of the scenario execution of a worker ends.
ExecutionEnds(w) ==
    /\ worker[w] = "in_flight"
    /\ worker' = [worker EXCEPT ![w] = "ready"]
    /\ ready' = Append(ready, TaskOf(w))
    /\ UNCHANGED <<config, finished, total_requests, successful_requests, failed_requests,
                   error_requests, response_times, status_codes, errors,
                   active_tasks, metrics_history, load_result, main_pc, gen_pc,
                   gen_cancel, sampler_pc, sampler_cancel, dispatched, drain_polls,
                   tick_skipped, run_start>>
    /\ UNCHANGED <<svars, cvars, pvars, kvars>>

\* The response times a ScenarioResult adds: those above zero, in step order.
RECURSIVE times_of(_)
times_of(steps) ==
    IF steps = <<>> THEN <<>>
    ELSE (IF Head(steps).response_time_ms > 0 THEN <<Head(steps).response_time_ms>> ELSE <<>>)
         \o times_of(Tail(steps))

\* The status code counts after the steps of a ScenarioResult.
RECURSIVE codes_after(_, _)
codes_after(counts, steps) ==
    IF steps = <<>> THEN counts
    ELSE codes_after(
             IF Head(steps).status_code # 0
             THEN [counts EXCEPT ![Head(steps).status_code] = @ + 1]
             ELSE counts,
             Tail(steps))

\* The error message counts after the steps of a ScenarioResult.
RECURSIVE errors_after(_, _)
errors_after(counts, steps) ==
    IF steps = <<>> THEN counts
    ELSE errors_after(
             IF Head(steps).error_message # "None"
             THEN [counts EXCEPT ![Head(steps).error_message] = @ + 1]
             ELSE counts,
             Tail(steps))

counted_as_unless_raised(execution) ==
    IF execution.raised THEN SKIPPED
    ELSE IF execution.status = SUCCESS THEN SUCCESS
    ELSE IF execution.status = FAILURE THEN FAILURE
    ELSE ERROR

\* The counter a finished execution increments besides total_requests.
counted_as(execution) ==
    IF execution.raised THEN ERROR
    ELSE IF execution.status = SUCCESS THEN SUCCESS
    ELSE IF execution.status = FAILURE THEN FAILURE
    ELSE ERROR

in_flight_kept(active) == active

\* The in-flight counter after the finally clause of _execute_single_request.
in_flight_after(active) == active - 1

\* _execute_single_request from the end of the scenario execution, whatever
\* it came to: the metrics are updated, and the in-flight counter is
\* decremented (finally).
WorkerFinishes(w) ==
    /\ Runs(TaskOf(w))
    /\ worker[w] = "ready"
    /\ \E execution \in Executions :
           /\ finished' = Append(finished, execution)
           /\ total_requests' = total_requests + 1
           /\ successful_requests' =
                  successful_requests + (IF counted_as(execution) = SUCCESS THEN 1 ELSE 0)
           /\ failed_requests' =
                  failed_requests + (IF counted_as(execution) = FAILURE THEN 1 ELSE 0)
           /\ error_requests' =
                  error_requests + (IF counted_as(execution) = ERROR THEN 1 ELSE 0)
           /\ response_times' = response_times \o times_of(execution.steps)
           /\ status_codes' = codes_after(status_codes, execution.steps)
           /\ errors' = IF execution.raised
                        THEN [errors EXCEPT ![execution.msg] = @ + 1]
                        ELSE errors_after(errors, execution.steps)
    /\ active_tasks' = in_flight_after(active_tasks)
    /\ worker' = [worker EXCEPT ![w] = "done"]
    /\ ready' = Tail(ready)
    /\ UNCHANGED <<config, metrics_history, load_result, main_pc, gen_pc, gen_cancel,
                   sampler_pc, sampler_cancel, dispatched, drain_polls, tick_skipped, run_start>>
    /\ UNCHANGED <<svars, cvars, pvars, kvars>>

\* The first step of the sampler task: into its one-second sleep.
SamplerStarts ==
    /\ Runs("sampler")
    /\ sampler_pc = "created"
    /\ ~sampler_cancel
    /\ sampler_pc' = "sleeping"
    /\ ready' = Tail(ready)
    /\ UNCHANGED <<config, finished, total_requests, successful_requests, failed_requests,
                   error_requests, response_times, status_codes, errors,
                   active_tasks, metrics_history, load_result, main_pc, gen_pc,
                   gen_cancel, sampler_cancel, worker, dispatched, drain_polls,
                   tick_skipped, run_start>>
    /\ UNCHANGED <<svars, cvars, pvars, kvars>>

\* The one-second sleep of the sampler ends.
SamplerWakes ==
    /\ sampler_pc = "sleeping"
    /\ Len(metrics_history) < MaxSamples
    /\ sampler_pc' = "ready"
    /\ ready' = Append(ready, "sampler")
    /\ UNCHANGED <<config, finished, total_requests, successful_requests, failed_requests,
                   error_requests, response_times, status_codes, errors,
                   active_tasks, metrics_history, load_result, main_pc, gen_pc,
                   gen_cancel, sampler_cancel, worker, dispatched, drain_polls,
                   tick_skipped, run_start>>
    /\ UNCHANGED <<svars, cvars, pvars, kvars>>

\* elapsed, had it been measured from the tick before and not from start_time.
elapsed_since_last_tick(history) == 1

\* elapsed of _calculate_current_metrics, in whole seconds: the sampler reads
\* the clock after one sleep of a second more than those that ended with the
\* snapshots of the history, all of them after start_time.
elapsed_at(history) == Len(history) + 1

\* current_metrics, had total_requests been incremented before the scenario
\* execution is awaited: workers in flight are in the total already.
current_metrics_total_ahead ==
    [elapsed_seconds |-> elapsed_at(metrics_history),
     total_requests |-> total_requests + active_tasks,
     successful_requests |-> successful_requests,
     failed_requests |-> failed_requests, error_requests |-> error_requests,
     active_connections |-> active_tasks]

\* _calculate_current_metrics: the counters of a snapshot.
current_metrics ==
    [elapsed_seconds |-> elapsed_at(metrics_history),
     total_requests |-> total_requests, successful_requests |-> successful_requests,
     failed_requests |-> failed_requests, error_requests |-> error_requests,
     active_connections |-> active_tasks]

\* sampled, had the snapshot been handed to the callback only.
sampled_not_kept(history, metrics) == history

\* self.metrics_history.append(metrics)
sampled(history, metrics) == Append(history, metrics)

\* One iteration of the loop of _collect_metrics: a snapshot is appended, and
\* the sampler sleeps again.
SamplerTicks ==
    /\ Runs("sampler")
    /\ sampler_pc = "ready"
    /\ ~sampler_cancel
    /\ metrics_history' = sampled(metrics_history, current_metrics)
    /\ sampler_pc' = "sleeping"
    /\ ready' = Tail(ready)
    /\ UNCHANGED <<config, finished, total_requests, successful_requests, failed_requests,
                   error_requests, response_times, status_codes, errors,
                   active_tasks, load_result, main_pc, gen_pc,
                   gen_cancel, sampler_cancel, worker, dispatched, drain_polls,
                   tick_skipped, run_start>>
    /\ UNCHANGED <<svars, cvars, pvars, kvars>>

deadline_may_pass_at_once(n) == n >= 0

\* Whether the 30 s of the drain have elapsed at a check after n sleeps of
\* 0.1 s: not before the first sleep, for certain after DrainPolls of them.
deadline_may_pass(n) == n >= 1

deadline_must_pass(n) == n >= DrainPolls

\* The drain loop of execute_load_test finds workers in flight within the
\* deadline, and sleeps 0.1 s.
MainDrains ==
    /\ Runs("main")
    /\ main_pc = "drain"
    /\ active_tasks > 0
    /\ ~deadline_must_pass(drain_polls)
    /\ main_pc' = "drain_sleep"
    /\ drain_polls' = drain_polls + 1
    /\ ready' = Tail(ready)
    /\ UNCHANGED <<config, finished, total_requests, successful_requests, failed_requests,
                   error_requests, response_times, status_codes, errors,
                   active_tasks, metrics_history, load_result, gen_pc, gen_cancel,
                   sampler_pc, sampler_cancel, worker, dispatched, tick_skipped, run_start>>
    /\ UNCHANGED <<svars, cvars, pvars, kvars>>

\* The 0.1 s sleep of the drain loop ends.
DrainSleepEnds ==
    /\ main_pc = "drain_sleep"
    /\ main_pc' = "drain"
    /\ ready' = Append(ready, "main")
    /\ UNCHANGED <<config, finished, total_requests, successful_requests, failed_requests,
                   error_requests, response_times, status_codes, errors,
                   active_tasks, metrics_history, load_result, gen_pc, gen_cancel,
                   sampler_pc, sampler_cancel, worker, dispatched, drain_polls,
                   tick_skipped, run_start>>
    /\ UNCHANGED <<svars, cvars, pvars, kvars>>

\* The drain loop ends (no worker in flight, or the deadline has passed):
\* metrics_task.cancel(), then await metrics_task.
MainCancelsSampler ==
    /\ Runs("main")
    /\ main_pc = "drain"
    /\ sampler_pc # "raised"
    /\ \/ active_tasks <= 0
       \/ deadline_may_pass(drain_polls)
    /\ sampler_cancel' = TRUE
    /\ ready' = IF cancel_enqueues(sampler_pc) THEN Tail(ready) \o <<"sampler">> ELSE Tail(ready)
    /\ sampler_pc' = IF cancel_enqueues(sampler_pc) THEN "ready" ELSE sampler_pc
    /\ main_pc' = "await_sampler"
    /\ UNCHANGED <<config, finished, total_requests, successful_requests, failed_requests,
                   error_requests, response_times, status_codes, errors,
                   active_tasks, metrics_history, load_result, gen_pc, gen_cancel,
                   worker, dispatched, drain_polls, tick_skipped, run_start>>
    /\ UNCHANGED <<svars, cvars, pvars, kvars>>

\* The sampler is resumed with CancelledError, which it swallows: the task
\* ends and execute_load_test, which awaits it, is made ready.
SamplerCancelled ==
    /\ Runs("sampler")
    /\ sampler_cancel
    /\ sampler_pc' = "done"
    /\ ready' = Tail(ready) \o <<"main">>
    /\ main_pc' = "assemble"
    /\ UNCHANGED <<config, finished, total_requests, successful_requests, failed_requests,
                   error_requests, response_times, status_codes, errors,
                   active_tasks, metrics_history, load_result, gen_pc, gen_cancel,
                   sampler_cancel, worker, dispatched, drain_polls, tick_skipped, run_start>>
    /\ UNCHANGED <<svars, cvars, pvars, kvars>>

\* success_rate, as the exact fraction num/den:
\* successful_requests / total_requests * 100 if total_requests > 0 else 0.
success_rate_of(successful, total) ==
    IF total > 0 THEN [num |-> successful * 100, den |-> total]
    ELSE [num |-> 0, den |-> 1]

\* The LoadTestResult of execute_load_test.
load_test_result ==
    [total_requests |-> total_requests,
     successful_requests |-> successful_requests,
     failed_requests |-> failed_requests,
     error_requests |-> error_requests,
     success_rate |-> success_rate_of(successful_requests, total_requests),
     response_times |-> response_times,
     status_code_distribution |-> status_codes,
     error_distribution |-> errors,
     metrics_timeline |-> metrics_history]

\* execute_load_test from the end of the sampler: the final metrics and the
\* LoadTestResult.
MainReturns ==
    /\ Runs("main")
    /\ main_pc = "assemble"
    /\ load_result' = load_test_result
    /\ main_pc' = "done"
    /\ ready' = Tail(ready)
    /\ UNCHANGED <<config, finished, total_requests, successful_requests, failed_requests,
                   error_requests, response_times, status_codes, errors,
                   active_tasks, metrics_history, gen_pc, gen_cancel,
                   sampler_pc, sampler_cancel, worker, dispatched, drain_polls,
                   tick_skipped, run_start>>
    /\ UNCHANGED <<svars, cvars, pvars, kvars>>

\* No concurrent executions, in the behaviours of one scenario execution and
\* of the load test.
ConcurrentIdle ==
    /\ contexts = <<>>
    /\ executions = <<>>

result_collections_shared ==
    [response_times |-> response_times, status_code_distribution |-> status_codes,
     error_distribution |-> errors, metrics_timeline |-> metrics_history]

\* The collections a caller reads from the LoadTestResult returned: the copies
\* made when it was assembled (list.copy(), dict(...)).
result_collections ==
    [response_times |-> load_result.response_times,
     status_code_distribution |-> load_result.status_code_distribution,
     error_distribution |-> load_result.error_distribution,
     metrics_timeline |-> load_result.metrics_timeline]

\* No call, in the behaviours of the engines.
NoCall == [fn |-> "none", data |-> None, field_path |-> <<>>]

\* What a call that has not returned yet holds as its result.
Pending == [kind |-> "pending", num |-> 0, kids |-> <<>>]

PureIdle ==
    /\ call = NoCall
    /\ returned = Pending

\* The instances of the application, by pid; pid 0 is an earlier instance
\* that has ended.
Processes == 1..MaxProcesses

\* No lock file at self.lock_file.
NoFile == [exists |-> FALSE, text |-> <<>>]

\* No instance is started, in the behaviours of the engines.
LockIdle ==
    /\ lock_file = NoFile
    /\ lock_pc = [p \in Processes |-> "exited"]
    /\ old_pid = [p \in Processes |-> 0]

Init == ScenarioInit /\ LoadIdle /\ ConcurrentIdle /\ PureIdle /\ LockIdle

Next == StartStep \/ AttemptRaises \/ AttemptResponds \/ Backoff \/ Return

Spec == Init /\ [][Next]_vars

LoadTestInit == LoadInit /\ ScenarioIdle /\ ConcurrentIdle /\ PureIdle /\ LockIdle

LoadNext ==
    \/ MainStarts
    \/ DurationElapses
    \/ MainCancelsGenerator
    \/ GeneratorTicks
    \/ GeneratorWakes
    \/ GeneratorCancelled
    \/ \E w \in Workers : WorkerStarts(w)
    \/ \E w \in Workers : ExecutionEnds(w)
    \/ \E w \in Workers : WorkerFinishes(w)
    \/ SamplerStarts
    \/ SamplerWakes
    \/ SamplerTicks
    \/ MainDrains
    \/ DrainSleepEnds
    \/ MainCancelsSampler
    \/ SamplerCancelled
    \/ MainReturns

LoadSpec == LoadTestInit /\ [][LoadNext]_vars

\* execute_load_test is called again on the same engine, in the same event
\* loop, after the run before it returned: the caller is the running task
\* (while a worker task is left to dispatch within MaxWorkers).
ExecuteLoadTestAgain ==
    /\ main_pc = "done"
    /\ dispatched < MaxWorkers
    /\ main_pc' = "start"
    /\ ready' = <<"main">> \o ready
    /\ gen_pc' = "none"
    /\ gen_cancel' = FALSE
    /\ sampler_pc' = "none"
    /\ sampler_cancel' = FALSE
    /\ drain_polls' = 0
    /\ UNCHANGED <<config, finished, total_requests, successful_requests, failed_requests,
                   error_requests, response_times, status_codes, errors,
                   active_tasks, metrics_history, load_result, worker, dispatched,
                   tick_skipped, run_start>>
    /\ UNCHANGED <<svars, cvars, pvars, kvars>>

ReuseNext == LoadNext \/ ExecuteLoadTestAgain

\* The samples after which the sampler is followed no further in the
\* behaviours of the timeline.
MaxTimeline == MaxSamples + 1

\* await asyncio.sleep(1) of _collect_metrics ends, MaxTimeline samples not
\* having been taken yet.
SamplerWakesAgain ==
    /\ sampler_pc = "sleeping"
    /\ Len(metrics_history) < MaxTimeline
    /\ sampler_pc' = "ready"
    /\ ready' = Append(ready, "sampler")
    /\ UNCHANGED <<config, finished, total_requests, successful_requests, failed_requests,
                   error_requests, response_times, status_codes, errors,
                   active_tasks, metrics_history, load_result, main_pc, gen_pc,
                   gen_cancel, sampler_cancel, worker, dispatched, drain_polls,
                   tick_skipped, run_start>>
    /\ UNCHANGED <<svars, cvars, pvars, kvars>>

TimelineNext == LoadNext \/ SamplerWakesAgain

\* One load test whose sampler takes up to MaxTimeline snapshots.
TimelineSpec == LoadTestInit /\ [][TimelineNext]_vars

\* One iteration of the loop of _collect_metrics whose callback raises an
\* exception: the snapshot has been appended; the exception is no
\* CancelledError, so it leaves the loop and the coroutine, and the sampler
\* task ends holding it.
SamplerCallbackRaises ==
    /\ Runs("sampler")
    /\ sampler_pc = "ready"
    /\ ~sampler_cancel
    /\ metrics_history' = sampled(metrics_history, current_metrics)
    /\ sampler_pc' = "raised"
    /\ ready' = Tail(ready)
    /\ UNCHANGED <<config, finished, total_requests, successful_requests, failed_requests,
                   error_requests, response_times, status_codes, errors,
                   active_tasks, load_result, main_pc, gen_pc,
                   gen_cancel, sampler_cancel, worker, dispatched, drain_polls,
                   tick_skipped, run_start>>
    /\ UNCHANGED <<svars, cvars, pvars, kvars>>

\* execute_load_test, the drain over, with a sampler task that has ended by
\* an exception: cancel() does nothing to a task that is done, and await
\* metrics_task raises the exception of the task at once; it is no
\* CancelledError and leaves execute_load_test.
MainAwaitsFailedSampler ==
    /\ Runs("main")
    /\ main_pc = "drain"
    /\ sampler_pc = "raised"
    /\ \/ active_tasks <= 0
       \/ deadline_may_pass(drain_polls)
    /\ main_pc' = "raised"
    /\ ready' = Tail(ready)
    /\ UNCHANGED <<config, finished, total_requests, successful_requests, failed_requests,
                   error_requests, response_times, status_codes, errors,
                   active_tasks, metrics_history, load_result, gen_pc, gen_cancel,
                   sampler_pc, sampler_cancel, worker, dispatched, drain_polls,
                   tick_skipped, run_start>>
    /\ UNCHANGED <<svars, cvars, pvars, kvars>>

CallbackNext == TimelineNext \/ SamplerCallbackRaises \/ MainAwaitsFailedSampler

\* One load test with a metrics callback that may raise.
CallbackSpec == LoadTestInit /\ [][CallbackNext]_vars

\* Runs of execute_load_test one after the other on one LoadTestEngine.
ReuseSpec == LoadTestInit /\ [][ReuseNext]_vars

\* The event loop runs the task at the head of its queue of ready tasks.
RunsTask ==
    \/ MainStarts
    \/ MainCancelsGenerator
    \/ GeneratorTicks
    \/ GeneratorCancelled
    \/ \E w \in Workers : WorkerStarts(w)
    \/ \E w \in Workers : WorkerFinishes(w)
    \/ SamplerStarts
    \/ SamplerTicks
    \/ MainDrains
    \/ MainCancelsSampler
    \/ SamplerCancelled
    \/ MainReturns

\* The event loop keeps running ready tasks, and the clock is fair to
\* execute_load_test: its sleep of duration_seconds and the 0.1 s sleeps of its
\* drain loop end.  Nothing makes a scenario execution end, nor the pacing
\* sleeps of the generator and the sampler.
LoadFairness ==
    /\ WF_vars(RunsTask)
    /\ WF_vars(DurationElapses)
    /\ WF_vars(DrainSleepEnds)

LoadLiveSpec == LoadTestInit /\ [][LoadNext]_vars /\ LoadFairness

\* ---------------------------------- concurrent scenario executions, cont.

\* The scenarios the workers of a load test execute concurrently: MaxSteps
\* steps that go on after a failure, each extracting token or not.
SharedSteps == { Step(0, TRUE, <<StatusEq200>>, e, NoDelays) : e \in {<<>>, ExtractToken} }

SharedScenarios ==
    { [variables |-> <<Item("token", Num(0))>>, steps |-> Named(ss)] :
        ss \in SeqsOf(SharedSteps, MaxSteps) }

\* What a request of a concurrent execution comes to.
SharedOutcomes ==
    {[raises |-> FALSE, error |-> "", response |-> Response(200, Dict(<<Item("id", Num(1))>>))],
     [raises |-> FALSE, error |-> "", response |-> Response(200, Dict(<<Item("id", Num(2))>>))],
     [raises |-> FALSE, error |-> "", response |-> Response(500, Text(<<"oops">>))],
     [raises |-> TRUE, error |-> TimeoutMessage, response |-> Response(0, None)]}

\* The dict object of scenario.variables.
ScenarioVariables == 0

variables_aliased(w) == ScenarioVariables

\* The dict object `variables` of the execution of worker w refers to: the
\* copy of scenario.variables made on entry, an object of its own.
variables_copy(w) == w

\* The load engine is about to dispatch workers that execute one scenario.
ConcurrentInit ==
    /\ scenario \in SharedScenarios
    /\ contexts = [o \in {ScenarioVariables} \cup Workers |->
                       IF o = ScenarioVariables THEN scenario.variables ELSE <<>>]
    /\ executions = [w \in Workers |->
                        [at |-> 0, awaits |-> FALSE, variables |-> ScenarioVariables,
                         substituted_from |-> <<>>, own |-> <<>>]]

\* The scenario engine of one execution at rest, but for the scenario.
ScenarioShared ==
    /\ progress_callback = FALSE
    /\ pc = "done"
    /\ idx = 1
    /\ variables = <<>>
    /\ steps_results = <<>>
    /\ scenario_status = SUCCESS
    /\ attempts = 0
    /\ attempt = 0
    /\ last_error = "None"
    /\ result = NoResult
    /\ events = <<>>
    /\ request_context = <<>>
    /\ request_path = <<>>
    /\ progress_log = <<>>
    /\ comparison_raised = FALSE

\* A worker enters execute_scenario: variables = scenario.variables.copy().
ExecutionStarts(w) ==
    /\ executions[w].at = 0
    /\ contexts' = [contexts EXCEPT ![variables_copy(w)] = contexts[ScenarioVariables]]
    /\ executions' = [executions EXCEPT
                          ![w] = [at |-> 1, awaits |-> FALSE,
                                  variables |-> variables_copy(w),
                                  substituted_from |-> <<>>,
                                  own |-> scenario.variables]]
    /\ UNCHANGED <<svars, lvars, pvars, kvars>>

\* The execution of worker w starts its next step, up to the request: the
\* path is substituted from its variables.
ExecutionSends(w) ==
    /\ executions[w].at \in 1..Len(scenario.steps)
    /\ ~executions[w].awaits
    /\ executions' = [executions EXCEPT
                          ![w].awaits = TRUE,
                          ![w].substituted_from = contexts[executions[w].variables]]
    /\ UNCHANGED <<svars, lvars, pvars, kvars, contexts>>

\* The request of worker w ends: the step result is made, and its extracted
\* variables are merged into the variables of the execution.
ExecutionReceives(w) ==
    /\ executions[w].awaits
    /\ \E outcome \in SharedOutcomes :
       \E step \in {scenario.steps[executions[w].at]} :
       \E step_result \in
              {LET called == execute_step(step, executions[w].substituted_from, outcome)
                   processed == process_response(step, outcome.response)
               IN  IF called.raised THEN error_result(step, called.msg)
                   ELSE IF processed.raised THEN error_result(step, processed.msg)
                   ELSE processed.step_result} :
           /\ contexts' = [contexts EXCEPT ![executions[w].variables] =
                               merged(@, step_result)]
           /\ executions' = [executions EXCEPT
                                 ![w].awaits = FALSE,
                                 ![w].own = merged(@, step_result),
                                 ![w].at = IF breaks(step, step_result.status)
                                           THEN Len(scenario.steps) + 1
                                           ELSE @ + 1]
    /\ UNCHANGED <<svars, lvars, pvars, kvars>>

ConcurrentSpecInit == ConcurrentInit /\ ScenarioShared /\ LoadIdle /\ PureIdle /\ LockIdle

ConcurrentNext ==
    \/ \E w \in Workers : ExecutionStarts(w)
    \/ \E w \in Workers : ExecutionSends(w)
    \/ \E w \in Workers : ExecutionReceives(w)

ConcurrentSpec == ConcurrentSpecInit /\ [][ConcurrentNext]_vars

\* ------------------------------------------ calls of pure functions, cont.

\* The data trees get_field_value is called on: null, scalars, sequences and
\* mappings, nested.
FieldTrees ==
    {None, Num(1), Text(<<"oops">>), List(<<Num(7)>>),
     List(<<Dict(<<Item("id", Num(1))>>)>>),
     Dict(<<Item("id", Num(1))>>),
     Dict(<<Item("id", List(<<Num(7), Num(8)>>))>>),
     Dict(<<Item("id", None)>>),
     Dict(<<Item("status", Num(200)), Item("0", Text(<<"oops">>))>>)}

\* The parts of the field paths: keys, decimal indices, and a part of a
\* Unicode digit that is not decimal.
FieldParts == {"id", "status", "0", "1", "sup2"}

FieldPaths == UNION { SeqsOf(FieldParts, n) : n \in 1..MaxParts }

FieldCalls ==
    { [fn |-> "get_field_value", data |-> d, field_path |-> f] :
        d \in FieldTrees, f \in FieldPaths }

\* The response bodies an exists assertion is validated on: values that are
\* falsy in Python (0, the empty string, the empty list) and null, stored
\* under a key, in a list, or as the body itself.
ExistsBodies ==
    {None, Num(0), Text(<<>>),
     Dict(<<Item("id", Num(0))>>),
     Dict(<<Item("id", Text(<<>>))>>),
     Dict(<<Item("id", None)>>),
     Dict(<<Item("id", List(<<>>))>>),
     List(<<Num(0), None>>)}

\* The field paths of the assertions: "status", "body", and paths into the
\* body.
AssertionFields ==
    {<<"status">>, <<"body">>} \cup { <<"body">> \o f : f \in FieldPaths }

ExistsCalls ==
    { [fn |-> "validate_assertion",
       assertion |-> [operator |-> "exists", field |-> f, value |-> None],
       status_code |-> 200, response_body |-> b] :
        f \in AssertionFields, b \in ExistsBodies }

\* The actual and expected values of the assertions compared: absent or
\* null, numbers, strings (one of them no regular expression), lists, a dict.
OperatorValues ==
    {None, Num(1), Num(2), Text(<<"a", "b">>), Text(<<"b">>), Text(<<"(">>),
     List(<<Num(1), Text(<<"b">>)>>), List(<<>>), Dict(<<Item("b", Num(1))>>)}

\* An assertion of every operator on the field "body", for every actual body
\* and expected value, but the orderings of two strings and of two lists.
OperatorCalls ==
    { c \in [fn : {"validate_assertion"},
             assertion : [operator : Operators, field : {<<"body">>}, value : OperatorValues],
             status_code : {200}, response_body : OperatorValues] :
        ~ /\ c.assertion.operator \in {"gt", "lt", "gte", "lte"}
          /\ c.response_body.kind = c.assertion.value.kind
          /\ c.response_body.kind \in {"str", "list"} }

\* The variable maps substituted from, as the sequence of their items in
\* iteration order: up to MaxBindings variables, each bound to a number, to a
\* plain text, or to a text that is the token of a variable.
TemplateContexts ==
    { c \in UNION { SeqsOf([key : {"a", "b", "c"},
                            val : {Num(1), Text(<<"v">>), Text(<<"{{a}}">>), Text(<<"{{b}}">>)}],
                           n) : n \in 0..MaxBindings } :
        \A i, j \in 1..Len(c) : c[i].key = c[j].key => i = j }

SubstituteCalls ==
    { [fn |-> "_substitute_variables", text |-> t, context |-> c] :
        t \in {<<"/items/", "{{a}}">>, <<"{{a}}", "-", "{{b}}">>, <<"{{c}}">>, <<"/items">>},
        c \in TemplateContexts }

\* sorted(times): each time goes to the place after the smaller times and
\* the equal times that precede it in the list (the sort is stable).
sorted(times) ==
    LET place(i) == 1 + Cardinality({j \in 1..Len(times) :
                                        \/ times[j] < times[i]
                                        \/ times[j] = times[i] /\ j < i})
    IN  [k \in 1..Len(times) |-> times[CHOOSE i \in 1..Len(times) : place(i) = k]]

\* statistics.median of a sorted list that is not empty, as the exact
\* fraction num/den: the middle value, or the mean of the two middle values.
median(sorted_times) ==
    LET n == Len(sorted_times)
    IN  IF n % 2 = 1 THEN [num |-> sorted_times[(n \div 2) + 1], den |-> 1]
        ELSE [num |-> sorted_times[n \div 2] + sorted_times[(n \div 2) + 1], den |-> 2]

\* percentile, had its rank been the nearest rank, ceil(percent * n) - 1.
percentile_nearest_rank(sorted_times, percent) ==
    sorted_times[((Len(sorted_times) * percent + 99) \div 100)]

\* p = sorted_times[p_idx] if p_idx < len(sorted_times) else max_time, with
\* p_idx = int(len(sorted_times) * 0.95) or 0.99: the float product truncates to
\* the floor of the exact one for every length a list can have.
percentile(sorted_times, percent) ==
    LET p_idx == (Len(sorted_times) * percent) \div 100
    IN  IF p_idx < Len(sorted_times) THEN sorted_times[p_idx + 1]
        ELSE sorted_times[Len(sorted_times)]

\* The sum of the times, halving the list.
RECURSIVE sum(_)
sum(times) ==
    IF times = <<>> THEN 0
    ELSE IF Len(times) = 1 THEN times[1]
    ELSE sum(SubSeq(times, 1, Len(times) \div 2))
         + sum(SubSeq(times, (Len(times) \div 2) + 1, Len(times)))

\* The response time figures of _calculate_current_metrics, from the list
\* self.response_times; avg and p50 are exact fractions.
response_time_metrics(times) ==
    IF times # <<>>
    THEN LET sorted_times == sorted(times)
         IN  [avg |-> [num |-> sum(sorted_times), den |-> Len(sorted_times)],
              min |-> sorted_times[1],
              max |-> sorted_times[Len(sorted_times)],
              p50 |-> median(sorted_times),
              p95 |-> percentile(sorted_times, 95),
              p99 |-> percentile(sorted_times, 99)]
    ELSE [avg |-> [num |-> 0, den |-> 1], min |-> 0, max |-> 0,
          p50 |-> [num |-> 0, den |-> 1], p95 |-> 0, p99 |-> 0]

\* The response times recorded when a snapshot is taken: up to MaxTimes
\* times of 5, 7 and 9 ms, in descending order or with the fastest last but
\* one; and long lists, of 100 to MaxLongTimes times of 9 and 5 ms.
ResponseTimeLists ==
    { l \in { [i \in 1..(a + b + c) |-> IF i <= c THEN 9 ELSE IF i <= c + b THEN 7 ELSE 5] :
                a, b, c \in 0..MaxTimes }
             \cup { [i \in 1..(a + b) |->
                        IF i = a + b - 1 THEN 5 ELSE IF i <= a THEN 9 ELSE 7] :
                      a, b \in 1..MaxTimes } :
        Len(l) <= MaxTimes }
    \cup { [i \in 1..n |-> IF i <= c THEN 9 ELSE 5] : n \in 100..MaxLongTimes, c \in 0..3 }

MetricsCalls ==
    { [fn |-> "_calculate_current_metrics", response_times |-> t] : t \in ResponseTimeLists }

\* interval = 1.0 / config.target_tps, as the exact fraction num/den.
interval(cfg) == [num |-> 1, den |-> cfg.target_tps]

\* The current_tps had the exponential ramp been the linear one.
current_tps_not_squared(cfg, elapsed) ==
    [num |-> cfg.target_tps * elapsed.num, den |-> elapsed.den * cfg.ramp_up_seconds]

\* The current_tps of the ramp-up phase (elapsed < ramp_up_seconds), as
\* an exact fraction; elapsed is the fraction num/den of a second.
current_tps(cfg, elapsed) ==
    IF cfg.distribution = "linear"
    THEN [num |-> cfg.target_tps * elapsed.num, den |-> elapsed.den * cfg.ramp_up_seconds]
    ELSE IF cfg.distribution = "exponential"
    THEN [num |-> cfg.target_tps * elapsed.num * elapsed.num,
          den |-> (elapsed.den * cfg.ramp_up_seconds) * (elapsed.den * cfg.ramp_up_seconds)]
    ELSE [num |-> cfg.target_tps, den |-> 1]

\* The current_interval of one iteration of the loop of _generate_load:
\* 1.0 / max(current_tps, 1) in the ramp-up phase, interval after it.
current_interval(cfg, elapsed) ==
    IF cfg.ramp_up_seconds > 0 /\ elapsed.num < cfg.ramp_up_seconds * elapsed.den
    THEN LET tps == current_tps(cfg, elapsed)
         IN  IF tps.num >= tps.den THEN [num |-> tps.den, den |-> tps.num]
             ELSE [num |-> 1, den |-> 1]
    ELSE interval(cfg)

\* The load test configurations whose pacing is computed (LoadTestConfig:
\* target_tps > 0, ramp_up_seconds >= 0, one of three distributions).
PacingConfigs ==
    [target_tps : 1..MaxTargetTps, ramp_up_seconds : 0..MaxRampUp,
     distribution : {"constant", "linear", "exponential"}]

\* Two successive iterations of the loop of _generate_load, each with its
\* reading of the time elapsed since start_time, up to a second past the
\* longest ramp-up; the second reading is not before the first.
PacingCalls ==
    { c \in { [fn |-> "_generate_load", config |-> cfg,
               elapsed |-> <<[num |-> t1, den |-> ClockTicks],
                             [num |-> t2, den |-> ClockTicks]>>] :
                cfg \in PacingConfigs,
                t1 \in 0..((MaxRampUp + 1) * ClockTicks),
                t2 \in 0..((MaxRampUp + 1) * ClockTicks) } :
        c.elapsed[1].num <= c.elapsed[2].num }

\* A function of the program is about to be called.
PureInit ==
    /\ call \in FieldCalls \cup ExistsCalls \cup OperatorCalls \cup SubstituteCalls
                \cup MetricsCalls \cup PacingCalls
    /\ returned = Pending

\* AssertionEngine.get_field_value(data, field_path) is called and returns,
\* or raises.
GetFieldValue ==
    /\ call.fn = "get_field_value"
    /\ returned = Pending
    /\ returned' = get_field_value(call.data, call.field_path)
    /\ UNCHANGED <<svars, lvars, cvars, kvars, call>>

PureSpecInit == PureInit /\ ScenarioIdle /\ LoadIdle /\ ConcurrentIdle /\ LockIdle

\* AssertionEngine.validate_assertion(assertion, status_code, response_body)
\* is called and returns (passed, message), or raises.
ValidateAssertion ==
    /\ call.fn = "validate_assertion"
    /\ returned = Pending
    /\ returned' = validate_assertion(call.assertion, call.status_code, call.response_body)
    /\ UNCHANGED <<svars, lvars, cvars, kvars, call>>

\* HttpClient._substitute_variables(text, context) is called and returns the
\* text substituted.
SubstituteVariables ==
    /\ call.fn = "_substitute_variables"
    /\ returned = Pending
    /\ returned' = Text(substitute_variables(call.text, call.context))
    /\ UNCHANGED <<svars, lvars, cvars, kvars, call>>

\* LoadTestEngine._calculate_current_metrics() is called with the response
\* times recorded so far, and returns a snapshot.
CalculateCurrentMetrics ==
    /\ call.fn = "_calculate_current_metrics"
    /\ returned = Pending
    /\ returned' = response_time_metrics(call.response_times)
    /\ UNCHANGED <<svars, lvars, cvars, kvars, call>>

\* LoadTestEngine._generate_load runs two iterations of its loop and sleeps
\* current_interval in each.
GenerateLoad ==
    /\ call.fn = "_generate_load"
    /\ returned = Pending
    /\ returned' = [i \in 1..Len(call.elapsed) |-> current_interval(call.config, call.elapsed[i])]
    /\ UNCHANGED <<svars, lvars, cvars, kvars, call>>

PureNext ==
    \/ GetFieldValue
    \/ ValidateAssertion
    \/ SubstituteVariables
    \/ CalculateCurrentMetrics
    \/ GenerateLoad

PureSpec == PureSpecInit /\ [][PureNext]_vars

\* ============================================================ ProcessLock
\* Instances of the application started at once in one directory, each
\* entering "with ProcessLock():" of main. A step of a process is one
\* operation on the lock file: an exists-check, a read, an unlink or a write.

\* The pids of two running processes that are not the application, which
\* the system gave the pid of an earlier instance.
ForeignPids == {MaxProcesses + 1, MaxProcesses + 2}

\* The lock file as the instances find it: none, one left without a pid in
\* it, or one left by an earlier instance that ended without releasing, whose
\* pid is free or is that of a foreign process by now.
LockInit ==
    /\ lock_file \in {NoFile, [exists |-> TRUE, text |-> <<>>]}
                       \cup {[exists |-> TRUE, text |-> <<pid>>] : pid \in {0} \cup ForeignPids}
    /\ lock_pc = [p \in Processes |-> "exists"]
    /\ old_pid = [p \in Processes |-> 0]

\* ' '.join(process.cmdline()) of a process: the instances are started as
\* "python main.py"; one foreign process is a server, the other an editor
\* on a file of this repository.
cmdline(pid) ==
    IF pid \in Processes THEN <<"python ", "main.py">>
    ELSE IF pid = MaxProcesses + 1 THEN <<"python ", "server.py">>
    ELSE <<"vim /home/u/", "RestApiSimulator", "/README.md">>

\* psutil.pid_exists(pid): a foreign process, or an instance that has not
\* ended.
pid_exists(pid) ==
    \/ pid \in ForeignPids
    \/ pid \in Processes /\ lock_pc[pid] \notin {"refused", "exited", "crashed"}

\* The test meant to tell that the process is the application:
\* 'main.py' in cmdline or 'RestApiSimulator' in cmdline.
is_application(pid) ==
    str_in(<<"main.py">>, cmdline(pid)) \/ str_in(<<"RestApiSimulator">>, cmdline(pid))

\* acquire: if self.lock_file.exists().
AcquireChecksExists(p) ==
    /\ lock_pc[p] = "exists"
    /\ lock_pc' = [lock_pc EXCEPT ![p] = IF lock_file.exists THEN "read" ELSE "write"]
    /\ UNCHANGED <<lock_file, old_pid>>
    /\ UNCHANGED <<svars, lvars, cvars, pvars>>

\* acquire: old_pid = int(f.read().strip()). A file that is gone raises
\* IOError and a text that is no integer ValueError: both go to the handler
\* that removes a corrupted lock file.
AcquireReads(p) ==
    /\ lock_pc[p] = "read"
    /\ IF lock_file.exists /\ lock_file.text # <<>>
       THEN /\ old_pid' = [old_pid EXCEPT ![p] = lock_file.text[1]]
            /\ lock_pc' = [lock_pc EXCEPT ![p] = "pid_exists"]
       ELSE /\ lock_pc' = [lock_pc EXCEPT ![p] = "unlink_corrupted"]
            /\ UNCHANGED old_pid
    /\ UNCHANGED lock_file
    /\ UNCHANGED <<svars, lvars, cvars, pvars>>

\* acquire: the process of old_pid is looked up; return False when it is a
\* running instance of the application (__enter__ then exits), else go on to
\* remove the stale lock.
AcquireChecksPid(p) ==
    /\ lock_pc[p] = "pid_exists"
    /\ lock_pc' = [lock_pc EXCEPT ![p] =
                      IF pid_exists(old_pid[p]) /\ is_application(old_pid[p]) THEN "refused"
                      ELSE "unlink_stale"]
    /\ UNCHANGED <<lock_file, old_pid>>
    /\ UNCHANGED <<svars, lvars, cvars, pvars>>

\* acquire: self.lock_file.unlink() of the stale lock; on a file that is gone
\* it raises FileNotFoundError, an IOError, which the handler of the
\* corrupted lock file catches.
AcquireUnlinksStale(p) ==
    /\ lock_pc[p] = "unlink_stale"
    /\ IF lock_file.exists
       THEN /\ lock_file' = NoFile
            /\ lock_pc' = [lock_pc EXCEPT ![p] = "write"]
       ELSE /\ lock_pc' = [lock_pc EXCEPT ![p] = "unlink_corrupted"]
            /\ UNCHANGED lock_file
    /\ UNCHANGED old_pid
    /\ UNCHANGED <<svars, lvars, cvars, pvars>>

\* acquire: self.lock_file.unlink() in the except clause; on a file that is
\* gone the FileNotFoundError leaves acquire and ends the process.
AcquireUnlinksCorrupted(p) ==
    /\ lock_pc[p] = "unlink_corrupted"
    /\ IF lock_file.exists
       THEN /\ lock_file' = NoFile
            /\ lock_pc' = [lock_pc EXCEPT ![p] = "write"]
       ELSE /\ lock_pc' = [lock_pc EXCEPT ![p] = "crashed"]
            /\ UNCHANGED lock_file
    /\ UNCHANGED old_pid
    /\ UNCHANGED <<svars, lvars, cvars, pvars>>

\* acquire: self.pid = os.getpid(), the file is created or overwritten with
\* str(self.pid), return True: the process goes on to run the application.
AcquireWrites(p) ==
    /\ lock_pc[p] = "write"
    /\ lock_file' = [exists |-> TRUE, text |-> <<p>>]
    /\ lock_pc' = [lock_pc EXCEPT ![p] = "running"]
    /\ UNCHANGED old_pid
    /\ UNCHANGED <<svars, lvars, cvars, pvars>>

\* The application ends and __exit__ calls release: if
\* self.lock_file.exists().
ReleaseChecksExists(p) ==
    /\ lock_pc[p] = "running"
    /\ lock_pc' = [lock_pc EXCEPT ![p] = IF lock_file.exists THEN "release_read" ELSE "exited"]
    /\ UNCHANGED <<lock_file, old_pid>>
    /\ UNCHANGED <<svars, lvars, cvars, pvars>>

\* release: pid = int(f.read().strip()); if pid == self.pid the file is to
\* be removed; ValueError and IOError are passed over.
ReleaseReads(p) ==
    /\ lock_pc[p] = "release_read"
    /\ lock_pc' = [lock_pc EXCEPT ![p] =
                      IF lock_file.exists /\ lock_file.text = <<p>> THEN "release_unlink"
                      ELSE "exited"]
    /\ UNCHANGED <<lock_file, old_pid>>
    /\ UNCHANGED <<svars, lvars, cvars, pvars>>

\* release: self.lock_file.unlink(); the FileNotFoundError of a file that is
\* gone is passed over. The process ends.
ReleaseUnlinks(p) ==
    /\ lock_pc[p] = "release_unlink"
    /\ lock_file' = NoFile
    /\ lock_pc' = [lock_pc EXCEPT ![p] = "exited"]
    /\ UNCHANGED old_pid
    /\ UNCHANGED <<svars, lvars, cvars, pvars>>

LockSpecInit == LockInit /\ ScenarioIdle /\ LoadIdle /\ ConcurrentIdle /\ PureIdle

LockNext ==
    \/ \E p \in Processes : AcquireChecksExists(p)
    \/ \E p \in Processes : AcquireReads(p)
    \/ \E p \in Processes : AcquireChecksPid(p)
    \/ \E p \in Processes : AcquireUnlinksStale(p)
    \/ \E p \in Processes : AcquireUnlinksCorrupted(p)
    \/ \E p \in Processes : AcquireWrites(p)
    \/ \E p \in Processes : ReleaseChecksExists(p)
    \/ \E p \in Processes : ReleaseReads(p)
    \/ \E p \in Processes : ReleaseUnlinks(p)

LockSpec == LockSpecInit /\ [][LockNext]_vars

\* ===================================================== scenario properties

CountOf(seq, x) == Cardinality({i \in 1..Len(seq) : seq[i] = x})

Occurs(seq, x) == \E i \in 1..Len(seq) : seq[i] = x

\* What an attempt can come to: a status, or the message of an exception.
AttemptEnds ==
    {SUCCESS, FAILURE} \cup ErrorMessages
    \cup {NoneCompareMessage, "invalid literal for int()"}

\* The attempts of the step made so far, and its requests and back-offs.
Attempts == Cardinality({i \in 1..Len(events) : events[i] \in AttemptEnds})

Requests == CountOf(events, "request")

Sleeps == CountOf(events, "sleep")

\* A step result was appended and no later step has started: events is the
\* record of the step of the latest result.
Committed == pc \in {"loop", "return", "done"} /\ steps_results # <<>>

LastIndex == Len(steps_results)

LastStep == scenario.steps[LastIndex]

LastResult == steps_results[LastIndex]

Statuses(results) == {results[i].status : i \in 1..Len(results)}

\* C1: the aggregate status of a returned ScenarioResult is success iff every
\* recorded step is success, failure iff some recorded step is failure and
\* none is error, and error otherwise.
C1_AggregateStatus ==
    pc = "done" =>
        LET st == Statuses(result.steps)
            all_success == st \subseteq {SUCCESS}
            failure_only == FAILURE \in st /\ ERROR \notin st
        IN  /\ result.status = SUCCESS <=> all_success
            /\ result.status = FAILURE <=> failure_only
            /\ result.status = ERROR <=> (~all_success /\ ~failure_only)

\* C1, the case: a returned result that holds an error step followed by a
\* failure step.
C1_Witness ==
    /\ pc = "done"
    /\ Len(result.steps) = 2
    /\ result.steps[1].status = ERROR
    /\ result.steps[2].status = FAILURE

\* C2: in every returned ScenarioResult, total_requests = len(steps) =
\* successful_requests + failed_requests + error_requests, also after an
\* early end of the scenario.
C2_CountsAddUp ==
    pc = "done" =>
        /\ result.total_requests = Len(result.steps)
        /\ result.total_requests =
               result.successful_requests + result.failed_requests
               + result.error_requests

\* C2, the case: a scenario of two steps returned after its first step failed.
C2_Witness ==
    /\ pc = "done"
    /\ Len(scenario.steps) = 2
    /\ result.total_requests = 1
    /\ result.failed_requests = 1

FirstAttemptEnd ==
    LET ends == {i \in 1..Len(events) : events[i] \in AttemptEnds}
    IN  IF ends = {} THEN ""
        ELSE events[CHOOSE i \in ends : \A j \in ends : i <= j]

\* C4: a step with retry = r is attempted at most r+1 times; it is attempted
\* exactly once when its first attempt comes to success or failure; an
\* attempt that comes to failure is never followed by another.
C4_AttemptsBounded ==
    /\ (pc \in {"attempt", "backoff"} \/ Committed) =>
           LET r == scenario.steps[IF Committed THEN LastIndex ELSE idx].retry
           IN  /\ Attempts <= r + 1
               /\ Requests <= r + 1
    /\ (Committed /\ FirstAttemptEnd \in {SUCCESS, FAILURE}) =>
           /\ Attempts = 1
           /\ Requests = 1
           /\ Sleeps = 0
    /\ \A i \in 1..Len(events) : events[i] = FAILURE => i = Len(events)

\* C4, the case: a step with a retry left whose first attempt came to failure
\* was committed.
C4_Witness ==
    /\ Committed
    /\ LastStep.retry > 0
    /\ FirstAttemptEnd = FAILURE
    /\ LastResult.status = FAILURE

\* The requests and back-offs of the step alternate, from a request to a
\* request: every back-off lies strictly between two consecutive attempts.
BackoffsBetweenAttempts ==
    LET marks == SelectSeq(events, LAMBDA e : e \in {"request", "sleep"})
    IN  /\ marks # <<>> => marks[1] = "request" /\ marks[Len(marks)] = "request"
        /\ \A i \in 1..(Len(marks) - 1) : marks[i] # marks[i + 1]

\* The index (1-based) of the first attempt that received a response, 0 when
\* none did.
FirstRespondingAttempt ==
    LET at == {i \in 1..Len(events) : events[i] = "response"}
    IN  IF at = {} THEN 0
        ELSE CountOf(SubSeq(events, 1, CHOOSE i \in at : \A j \in at : i <= j), "request")

\* Every attempt of the step that raised did so on its request, by a timeout
\* or a transport error.
RaisesOnRequestOnly ==
    \A i \in 1..Len(events) :
        events[i] \in AttemptEnds \ {SUCCESS, FAILURE} => events[i] \in ErrorMessages

\* C5: for a step with retry = r >= 0 whose attempts raise by transport or
\* timeout: when attempt k is the first to receive a response, exactly k
\* attempts and k-1 back-offs are made, each back-off between two consecutive
\* attempts, and the result is that of attempt k; when all r+1 attempts
\* raise, r+1 attempts and r back-offs are made, none after the last attempt,
\* and the result is error with the message of the last attempt.
C5_RetryBackoff ==
    (Committed /\ LastStep.retry >= 0 /\ RaisesOnRequestOnly) =>
        LET k == FirstRespondingAttempt
        IN  /\ BackoffsBetweenAttempts
            /\ IF k > 0
               THEN /\ Requests = k
                    /\ Attempts = k
                    /\ Sleeps = k - 1
                    /\ LastResult.status \in {SUCCESS, FAILURE}
                    /\ events[Len(events)] = LastResult.status
                    /\ LastResult.status_code # 0
               ELSE /\ Requests = LastStep.retry + 1
                    /\ Attempts = LastStep.retry + 1
                    /\ Sleeps = LastStep.retry
                    /\ events[Len(events)] # "sleep"
                    /\ LastResult.status = ERROR
                    /\ LastResult.error_message = events[Len(events)]

\* C5, the case: the first attempt of a step raised a timeout, the second,
\* after one back-off, received a response.
C5_Witness ==
    /\ Committed
    /\ RaisesOnRequestOnly
    /\ FirstRespondingAttempt = 2
    /\ events[3] = TimeoutMessage
    /\ Sleeps = 1

\* C5, the other case: every attempt of a step with a retry raised, the last
\* one by a transport error after a timeout.
C5_WitnessExhausted ==
    /\ Committed
    /\ LastStep.retry = 1
    /\ RaisesOnRequestOnly
    /\ FirstRespondingAttempt = 0
    /\ events[3] = TimeoutMessage
    /\ LastResult.error_message = TransportMessage

\* C6: once a step ended as failure or error with skip_on_failure false, it
\* is the last step recorded and the last step started: the loop has left,
\* no later step was notified or attempted, and the result holds exactly the
\* steps up to it, in order.
C6_StopsOnFailure ==
    \A j \in 1..Len(steps_results) :
        (steps_results[j].status \in {FAILURE, ERROR}
         /\ ~scenario.steps[j].skip_on_failure) =>
            /\ j = Len(steps_results)
            /\ idx = j
            /\ pc \in {"return", "done"}
            /\ \A n \in 1..Len(progress_log) : progress_log[n][2] <= j
            /\ pc = "done" =>
                   /\ Len(result.steps) = j
                   /\ \A i \in 1..j : result.steps[i].step_name = scenario.steps[i].name

\* C6, the case: a scenario of two steps returned after its first step ended
\* as error with skip_on_failure false.
C6_Witness ==
    /\ pc = "done"
    /\ Len(scenario.steps) = 2
    /\ ~scenario.steps[1].skip_on_failure
    /\ result.steps[1].status = ERROR

\* C7: when every recorded step that ended as failure or error has
\* skip_on_failure true, the result holds one StepResult per scenario step in
\* scenario order; with one failure among successes the status is failure,
\* with n-1 successes and one failure counted.
C7_SkipOnFailureContinues ==
    (pc = "done"
     /\ \A j \in 1..Len(result.steps) :
            result.steps[j].status \in {FAILURE, ERROR}
                => scenario.steps[j].skip_on_failure) =>
        /\ Len(result.steps) = Len(scenario.steps)
        /\ \A i \in 1..Len(result.steps) :
               result.steps[i].step_name = scenario.steps[i].name
        /\ (/\ CountOf([i \in 1..Len(result.steps) |-> result.steps[i].status], FAILURE) = 1
            /\ Statuses(result.steps) \subseteq {SUCCESS, FAILURE}) =>
               /\ result.status = FAILURE
               /\ result.successful_requests = Len(scenario.steps) - 1
               /\ result.failed_requests = 1

\* C7, the case: the first of two steps failed an assertion with
\* skip_on_failure true and the second succeeded.
C7_Witness ==
    /\ pc = "done"
    /\ Len(result.steps) = 2
    /\ result.steps[1].status = FAILURE
    /\ scenario.steps[1].skip_on_failure
    /\ result.steps[2].status = SUCCESS

VarNames == {"token"}

\* The value bound to name before step j: that of the latest extraction of
\* name by a step before j, or else the initial value (None when unbound).
BoundBefore(name, j) ==
    LET by == {i \in 1..(j - 1) : items_has(steps_results[i].extracted_variables, name)}
    IN  IF by = {} THEN items_get(scenario.variables, name)
        ELSE items_get(steps_results[CHOOSE i \in by : \A n \in by : n <= i]
                           .extracted_variables, name)

\* The step of the latest request.
RequestIndex ==
    IF pc \in {"attempt", "backoff"} THEN Len(steps_results) + 1 ELSE Len(steps_results)

\* C8: the context a step's request is substituted from binds each variable
\* to the value of its latest extraction by an earlier step (else to its
\* initial value), never to a value the step itself or a later step
\* extracts; the request is sent with that value; ScenarioResult.variables
\* binds each variable to its latest extraction by any step.
C8_ExtractionFeedsLaterSteps ==
    /\ Occurs(events, "substitute") =>
           \A name \in VarNames :
               /\ items_get(request_context, name) = BoundBefore(name, RequestIndex)
               /\ request_path =
                      <<"/items/">>
                      \o (IF BoundBefore(name, RequestIndex) = None
                          THEN <<placeholder(name)>>
                          ELSE py_str(BoundBefore(name, RequestIndex)))
    /\ pc = "done" =>
           \A name \in VarNames :
               items_get(result.variables, name)
                   = BoundBefore(name, Len(result.steps) + 1)

\* C8, the case: the second step was requested with the value the first
\* extracted, and extracted another value itself.
C8_Witness ==
    /\ pc = "done"
    /\ Len(result.steps) = 2
    /\ items_get(scenario.variables, "token") = Num(0)
    /\ items_get(result.steps[1].extracted_variables, "token") = Num(1)
    /\ items_get(result.steps[2].extracted_variables, "token") = Num(2)
    /\ request_path = <<"/items/", "1">>
    /\ items_get(result.variables, "token") = Num(2)

\* ===================================================== load test properties

\* The workers dispatched and not yet completed.
InFlight == {w \in Workers : worker[w] \in {"created", "in_flight", "ready"}}

\* C9: during a load test the workers dispatched and not yet completed never
\* number more than max_concurrent, whatever the interleaving of generator
\* ticks, worker starts and worker completions, and every snapshot taken has
\* active_connections <= max_concurrent.
C9_ConcurrencyCap ==
    /\ Cardinality(InFlight) <= config.max_concurrent
    /\ \A i \in 1..Len(metrics_history) :
           metrics_history[i].active_connections <= config.max_concurrent

\* The generator is about to tick with max_concurrent workers in flight and
\* worker tasks left to dispatch, and a snapshot has recorded max_concurrent
\* active connections.
C9_Witness ==
    /\ Runs("gen")
    /\ gen_pc = "ready"
    /\ ~gen_cancel
    /\ dispatched < MaxWorkers
    /\ Cardinality(InFlight) = config.max_concurrent
    /\ active_tasks = config.max_concurrent
    /\ \E i \in 1..Len(metrics_history) :
           metrics_history[i].active_connections = config.max_concurrent

\* C10: every LoadTestResult returned has total_requests =
\* successful_requests + failed_requests + error_requests, and success_rate =
\* 100 * successful_requests / total_requests when total_requests > 0 and 0
\* otherwise, hence between 0 and 100.
C10_LoadResultCounts ==
    main_pc = "done" =>
        /\ load_result.total_requests =
               load_result.successful_requests + load_result.failed_requests
               + load_result.error_requests
        /\ IF load_result.total_requests > 0
           THEN load_result.success_rate.num * load_result.total_requests =
                    100 * load_result.successful_requests * load_result.success_rate.den
           ELSE load_result.success_rate.num = 0
        /\ load_result.success_rate.den > 0
        /\ 0 <= load_result.success_rate.num
        /\ load_result.success_rate.num <= 100 * load_result.success_rate.den

\* A result is returned after a successful execution and one that raised.
C10_Witness ==
    /\ main_pc = "done"
    /\ load_result.successful_requests = 1
    /\ load_result.error_requests = 1
    /\ load_result.error_distribution["boom"] = 1
    /\ load_result.success_rate = [num |-> 100, den |-> 2]

\* A result is returned with no execution finished.
C10_WitnessEmpty ==
    /\ main_pc = "done"
    /\ load_result.total_requests = 0
    /\ dispatched > 0

\* C11: execute_load_test always terminates and returns a LoadTestResult:
\* under a fair clock it eventually returns, whatever the scenario executions
\* come to, and also when a worker in flight never completes.
C11_AlwaysReturns == <>(main_pc = "done")

\* A result is returned while a worker is still in flight, after an execution
\* that raised.
C11_Witness ==
    /\ main_pc = "done"
    /\ \E w \in Workers : worker[w] = "in_flight"
    /\ load_result.error_distribution["boom"] = 1
    /\ load_result.total_requests = load_result.error_requests

\* The step by which worker w finishes.
Finishing(w) == worker[w] = "ready" /\ worker'[w] = "done"

\* C12: a worker that finishes, its scenario execution having returned or
\* raised, increments total_requests by exactly 1 and exactly one of the
\* success, failure and error counters by 1 (the one of the ScenarioResult
\* status, or error when the execution raised, and then the exception text is
\* counted in the error histogram), and decrements the in-flight counter by
\* exactly 1.
C12_WorkerAccounting ==
    [][\A w \in Workers : Finishing(w) =>
           LET execution == finished'[Len(finished')]
               is_success == ~execution.raised /\ execution.status = SUCCESS
               is_failure == ~execution.raised /\ execution.status = FAILURE
           IN  /\ total_requests' = total_requests + 1
               /\ successful_requests' =
                      successful_requests + (IF is_success THEN 1 ELSE 0)
               /\ failed_requests' = failed_requests + (IF is_failure THEN 1 ELSE 0)
               /\ error_requests' =
                      error_requests + (IF is_success \/ is_failure THEN 0 ELSE 1)
               /\ execution.raised =>
                      errors'[execution.msg] = errors[execution.msg] + 1
               /\ active_tasks' = active_tasks - 1]_vars

\* An execution that raised and one that returned an error result have
\* finished, and no worker is counted in flight.
C12_Witness ==
    /\ \E i \in 1..Len(finished) : finished[i].raised
    /\ \E i \in 1..Len(finished) : ~finished[i].raised /\ finished[i].status = ERROR
    /\ total_requests = 2
    /\ error_requests = 2
    /\ errors["boom"] = 1
    /\ active_tasks = 0

\* The StepResults of the executions finished so far.
RECURSIVE StepsOf(_)
StepsOf(done) ==
    IF done = <<>> THEN 0
    ELSE Len(Head(done).steps) + StepsOf(Tail(done))

\* The status codes counted so far.
RECURSIVE Total(_, _)
Total(counts, keys) ==
    IF keys = {} THEN 0
    ELSE LET k == CHOOSE x \in keys : TRUE
         IN  counts[k] + Total(counts, keys \ {k})

\* C13: once all workers dispatched have completed, the response time and the
\* status code of every StepResult of their ScenarioResults have been
\* recorded: the recorded response times number as many as the StepResults of
\* the finished executions, steps that ended as error included.
C13_EveryStepRecorded ==
    (dispatched > 0 /\ InFlight = {}) =>
        /\ Len(response_times) = StepsOf(finished)
        /\ Total(status_codes, StatusCodes) = StepsOf(finished)

\* All workers dispatched have completed, one with a ScenarioResult of a single
\* error step, of which neither a response time nor a status code is recorded.
C13_Witness ==
    /\ dispatched > 0
    /\ InFlight = {}
    /\ finished = <<Executed(ERROR, <<StepOf(0, 0, TimeoutMessage)>>)>>
    /\ response_times = <<>>
    /\ Total(status_codes, StatusCodes) = 0
    /\ errors[TimeoutMessage] = 1

\* C14: every worker's scenario execution starts from exactly the initial
\* bindings of the scenario and writes only to its own context: whatever the
\* interleaving, each request is substituted from the initial bindings updated
\* with what the same execution extracted, and scenario.variables is never
\* changed.
C14_ContextsIsolated ==
    /\ contexts[ScenarioVariables] = scenario.variables
    /\ \A w \in Workers :
           /\ executions[w].at > 0 => contexts[executions[w].variables] = executions[w].own
           /\ executions[w].awaits => executions[w].substituted_from = executions[w].own

\* Two executions are under way with different bindings of token, one of
\* them awaiting the response to a request substituted from its own binding
\* after the other bound its own.
C14_Witness ==
    \E v, w \in Workers :
        /\ v # w
        /\ executions[v].own = <<Item("token", Num(1))>>
        /\ executions[w].own = <<Item("token", Num(2))>>
        /\ executions[v].at = 2
        /\ executions[v].awaits
        /\ executions[v].substituted_from = <<Item("token", Num(1))>>
        /\ executions[w].at = 2

\* C15: the workers in flight when the generator is cancelled are not
\* cancelled; the LoadTestResult is not assembled until the in-flight counter
\* was observed at zero (and then no worker is in flight) or the drain has
\* slept towards its deadline; and every worker that completed before the
\* drain ended is in the totals of the LoadTestResult.
C15_DrainBeforeResult ==
    [][/\ main_pc' # main_pc =>
              /\ worker' = worker
              /\ finished' = finished
              /\ main_pc # "start" => active_tasks' = active_tasks
       /\ (main_pc = "drain" /\ main_pc' = "await_sampler") =>
              \/ active_tasks = 0 /\ InFlight = {}
              \/ drain_polls >= 1
       /\ (main_pc # "done" /\ main_pc' = "done") =>
              /\ main_pc = "assemble"
              /\ load_result'.total_requests = Len(finished)
              /\ Len(load_result'.response_times) = Len(response_times)
     ]_vars

\* A result is returned after the drain slept with workers in flight, which
\* have all completed since and are in its totals.
C15_Witness ==
    /\ main_pc = "done"
    /\ drain_polls >= 1
    /\ InFlight = {}
    /\ dispatched = MaxWorkers
    /\ load_result.total_requests = dispatched

\* The totals of the LoadTestResult returned.
ResultTotals ==
    <<load_result.total_requests, load_result.successful_requests,
      load_result.failed_requests, load_result.error_requests,
      load_result.success_rate>>

\* C16: a LoadTestResult, once returned, is never changed by the workers
\* abandoned at the drain deadline: when such a worker completes later, the
\* totals, response_times, status_code_distribution, error_distribution and
\* metrics_timeline of the result keep the values they had at assembly.
C16_ResultDetached ==
    [][main_pc = "done" =>
           /\ ResultTotals' = ResultTotals
           /\ result_collections' = result_collections]_vars

\* A worker abandoned at the drain deadline has completed with a response
\* after the result was returned: the engine has counted it, the result has
\* not.
C16_Witness ==
    /\ main_pc = "done"
    /\ drain_polls >= 1
    /\ total_requests = load_result.total_requests + 1
    /\ Len(response_times) > Len(result_collections.response_times)
    /\ result_collections.status_code_distribution # status_codes

\* C17: once the generator is cancelled, at the end of duration_seconds, no
\* worker is dispatched any more: the number of workers dispatched stays what
\* it is through the drain and after the result is returned.
C17_NoDispatchAfterCancel ==
    [][gen_cancel => dispatched' = dispatched /\ gen_cancel']_vars

\* The cancelled generator is about to be resumed with the in-flight counter
\* below max_concurrent and worker tasks left to dispatch.
C17_Witness ==
    /\ gen_cancel
    /\ Runs("gen")
    /\ may_dispatch(active_tasks, config.max_concurrent)
    /\ dispatched < MaxWorkers
    /\ dispatched > 0

\* The order of an attempt.
AttemptOrder ==
    <<"delay_before", "substitute", "request", "response", "delay_after",
      "validate", "extract">>

PlaceOf(mark) == CHOOSE k \in 1..Len(AttemptOrder) : AttemptOrder[k] = mark

\* The positions in events at which the attempts of the step end.
AttemptEndsAt == {i \in 1..Len(events) : events[i] \in AttemptEnds}

\* The positions in events of what the attempt ending at position e did.
DoneIn(e) ==
    {i \in 1..(e - 1) :
        /\ events[i] # "sleep"
        /\ \A d \in AttemptEndsAt : ~(i <= d /\ d < e)}

\* Both delays of the latest step are numbers above zero.
LastStepDelays ==
    /\ LastStep.delay_before # None
    /\ LastStep.delay_after # None
    /\ LastStep.delay_before.num > 0
    /\ LastStep.delay_after.num > 0

\* C18: on every attempt of a step, attempts whose request raises included,
\* the delay before and the delay after are applied, and within the attempt
\* the order is: delay before, substitution, request, delay after, assertion
\* validation, extraction.
C18_DelaysOnEveryAttempt ==
    (Committed /\ LastStepDelays) =>
        \A e \in AttemptEndsAt :
            /\ \E i \in DoneIn(e) : events[i] = "delay_before"
            /\ \E i \in DoneIn(e) : events[i] = "delay_after"
            /\ \A i, j \in DoneIn(e) :
                   i < j => PlaceOf(events[i]) < PlaceOf(events[j])

\* A step with both delays made one attempt, whose request timed out: the
\* attempt slept before the request and not after it.
C18_Witness ==
    /\ Committed
    /\ LastStepDelays
    /\ events = <<"delay_before", "substitute", "request", TimeoutMessage>>
    /\ LastResult.status = ERROR

\* An attempt that got its response did everything, in the order of C18.
C18_WitnessOrder ==
    /\ Committed
    /\ LastStepDelays
    /\ events = <<"delay_before", "substitute", "request", "response", "delay_after",
                  "validate", "extract", SUCCESS>>

\* C19: when a comparison raises while an assertion is evaluated, only that
\* assertion is degraded to failed, with a message: the other assertions of
\* the step are evaluated all the same, the passed and the failed count add
\* up to the number of assertions, with one detail entry per assertion in
\* order, and the step comes to failure, not error, and is not retried.
C19_ComparisonErrorDegrades ==
    (Committed /\ comparison_raised) =>
        LET details == LastResult.assertion_details
            assertions == LastStep.assertions
        IN  /\ LastResult.status = FAILURE
            /\ events[Len(events)] = FAILURE
            /\ LastResult.assertions_passed + LastResult.assertions_failed = Len(assertions)
            /\ Len(details) = Len(assertions)
            /\ \A i \in 1..Len(details) :
                   /\ details[i].field = assertions[i].field
                   /\ details[i].operator = assertions[i].operator
                   /\ details[i].expected = assertions[i].value
            /\ \E i \in 1..Len(details) :
                   ~details[i].passed /\ details[i].message = AssertionErrorMessage

\* A comparison raised in the only attempt of a step, and the step was
\* committed as error: the field path of the next assertion made
\* get_field_value raise.
C19_Witness ==
    /\ Committed
    /\ comparison_raised
    /\ LastStep.assertions = <<BodyIdGtText, BodySup2Exists>>
    /\ LastStep.retry = 0
    /\ LastResult.status = ERROR
    /\ LastResult.error_message = "invalid literal for int()"

\* A comparison raised and the step was committed as failure, the assertion
\* after the degraded one having passed.
C19_WitnessDegraded ==
    /\ Committed
    /\ comparison_raised
    /\ LastStep.assertions = <<BodyIdGtText, StatusEq200>>
    /\ LastResult.status = FAILURE
    /\ LastResult.assertions_passed = 1
    /\ LastResult.assertions_failed = 1
    /\ LastResult.assertion_details[1].message = AssertionErrorMessage
    /\ LastResult.assertion_details[2].passed

\* The first part of the path of the call yields absent: a missing key, an
\* index out of range, a part that is no number at a sequence, or any part at
\* a scalar or at null.
FirstPartAbsent ==
    LET data == call.data
        part == call.field_path[1]
    IN  /\ call.field_path # <<"status">>
        /\ \/ data.kind = "dict" /\ ~items_has(data.kids, part)
           \/ data.kind = "list" /\ part \in DecimalParts /\ part_int(part) >= Len(data.kids)
           \/ data.kind = "list" /\ part \notin DigitParts
           \/ data.kind \in {"none", "num", "str"}

\* C20: field-path resolution is total: for every data tree of mappings,
\* sequences, scalars and null and every dotted path, get_field_value returns
\* a value or absent and never raises; a missing key, an index out of range,
\* a part that is no number at a sequence and any part at a scalar yield
\* absent, and once absent is produced the result is absent.
C20_FieldValueTotal ==
    (call.fn = "get_field_value" /\ returned # Pending) =>
        /\ ~IsRaised(returned)
        /\ FirstPartAbsent => returned = None

\* get_field_value was called on a sequence with a part that str.isdigit()
\* accepts and int() rejects, and raised.
C20_Witness ==
    /\ call.fn = "get_field_value"
    /\ call.data = List(<<Num(7)>>)
    /\ call.field_path = <<"sup2">>
    /\ IsRaised(returned)

\* The parts select, one after the other, an existing key or an index in
\* range, from node on.
RECURSIVE Resolves(_, _)
Resolves(node, parts) ==
    \/ parts = <<>>
    \/ /\ parts # <<>>
       /\ node.kind = "dict"
       /\ items_has(node.kids, Head(parts))
       /\ Resolves(items_get(node.kids, Head(parts)), Tail(parts))
    \/ /\ parts # <<>>
       /\ node.kind = "list"
       /\ Head(parts) \in DecimalParts
       /\ part_int(Head(parts)) < Len(node.kids)
       /\ Resolves(node.kids[part_int(Head(parts)) + 1], Tail(parts))

\* The response object {status, body} of a validate_assertion call.
ResponseObject ==
    Dict(<<Item("status", Num(call.status_code)), Item("body", call.response_body)>>)

ExistsValidated ==
    /\ call.fn = "validate_assertion"
    /\ call.assertion.operator = "exists"
    /\ returned # Pending

\* C21: an exists assertion passes iff its field path resolves to a node of the
\* response object {status, body}, whatever value is stored there (0, the
\* empty string and null included), and fails exactly when the path does not
\* resolve.
C21_ExistsIffResolves ==
    ExistsValidated =>
        /\ ~returned.raised
        /\ returned.passed <=> Resolves(ResponseObject, call.assertion.field)

\* An exists assertion on body.id was validated on the body {"id": null} and
\* failed, though the key is there.
C21_Witness ==
    /\ ExistsValidated
    /\ call.response_body = Dict(<<Item("id", None)>>)
    /\ call.assertion.field = <<"body", "id">>
    /\ ~returned.raised
    /\ ~returned.passed

\* An exists assertion passed on a falsy value stored under the key.
C21_WitnessFalsy ==
    /\ ExistsValidated
    /\ call.response_body = Dict(<<Item("id", Num(0))>>)
    /\ call.assertion.field = <<"body", "id">>
    /\ returned.passed

\* Structural equality of two values.
SameValue(a, b) == a.kind = b.kind /\ a = b

\* sub occurs in text, somewhere.
Substring(sub, text) ==
    \E i \in 0..(Len(text) - Len(sub)) : SubSeq(text, i + 1, i + Len(sub)) = sub

\* item is a member of the collection: an element of a list, a substring of
\* a string, a key of a dict.
Member(item, collection) ==
    CASE collection.kind = "list" ->
            \E i \in 1..Len(collection.kids) : SameValue(collection.kids[i], item)
      [] collection.kind = "str" ->
            item.kind = "str" /\ Substring(item.kids, collection.kids)
      [] collection.kind = "dict" ->
            item.kind = "str" /\ \E i \in 1..Len(collection.kids) :
                                     collection.kids[i].key = text_of(item.kids)
      [] OTHER -> FALSE

\* The operator table: whether an assertion of the operator passes on the
\* actual value A and the expected value E.
OperatorTable(A, operator, E) ==
    CASE operator = "eq" -> SameValue(A, E)
      [] operator = "ne" -> ~SameValue(A, E)
      [] operator = "gt" -> A.kind = "num" /\ E.kind = "num" /\ A.num > E.num
      [] operator = "lt" -> A.kind = "num" /\ E.kind = "num" /\ A.num < E.num
      [] operator = "gte" -> A.kind = "num" /\ E.kind = "num" /\ A.num >= E.num
      [] operator = "lte" -> A.kind = "num" /\ E.kind = "num" /\ A.num <= E.num
      [] operator = "contains" -> A.kind \in {"str", "list"} /\ Member(E, A)
      [] operator = "not_contains" -> ~(A.kind \in {"str", "list"} /\ Member(E, A))
      [] operator = "in" -> Member(A, E)
      [] operator = "not_in" -> ~Member(A, E)
      [] operator = "regex" ->
            /\ A.kind = "str" /\ E.kind = "str"
            /\ \A i \in 1..Len(E.kids) : E.kids[i] # "("
            /\ Len(E.kids) <= Len(A.kids) /\ SubSeq(A.kids, 1, Len(E.kids)) = E.kids
      [] operator = "exists" -> A.kind # "none"

OperatorValidated ==
    /\ call.fn = "validate_assertion"
    /\ call.assertion.field = <<"body">>
    /\ call.assertion.operator # "exists"
    /\ returned # Pending

\* C22: for every operator and every pair of an actual and an expected value,
\* the passed flag of the assertion is the one of the operator table: eq and ne
\* are structural, contains is substring or membership and false for any
\* other actual, not_contains is its negation, in and not_in test membership
\* of the actual in the expected collection, regex is false unless both are
\* strings.
C22_OperatorTable ==
    OperatorValidated =>
        /\ ~returned.raised
        /\ returned.passed <=>
               OperatorTable(call.response_body, call.assertion.operator, call.assertion.value)

\* not_contains was validated on the string "ab" and the expected number 1,
\* and failed, though 1 is not contained.
C22_Witness ==
    /\ OperatorValidated
    /\ call.assertion.operator = "not_contains"
    /\ call.response_body = Text(<<"a", "b">>)
    /\ call.assertion.value = Num(1)
    /\ ~returned.passed

\* contains passed on a substring, and not_contains on a list without the
\* expected element.
C22_WitnessTable ==
    /\ OperatorValidated
    /\ returned.passed
    /\ \/ /\ call.assertion.operator = "contains"
          /\ call.response_body = Text(<<"a", "b">>)
          /\ call.assertion.value = Text(<<"b">>)
       \/ /\ call.assertion.operator = "not_contains"
          /\ call.response_body = List(<<>>)
          /\ call.assertion.value = Num(1)

\* C23: the url of every StepResult is the base URL followed by the path
\* after variable substitution, the one that was requested, for success,
\* failure and error results alike (the base URL is the same on both sides and
\* left out).
C23_UrlIsResolved ==
    (Committed /\ Requests > 0) => LastResult.url = request_path

\* A step whose path holds the token of a bound variable was requested and
\* its result recorded: the url is not the path requested.
C23_Witness ==
    /\ Committed
    /\ Requests > 0
    /\ items_has(request_context, "token")
    /\ request_path = <<"/items/", "0">>
    /\ LastResult.url = <<"/items/", "{{token}}">>
    /\ LastResult.status = SUCCESS

\* A step whose path holds the token of an unbound variable: the token was
\* sent as it is, and the url is the path requested.
C23_WitnessUnbound ==
    /\ Committed
    /\ Requests > 0
    /\ ~items_has(request_context, "token")
    /\ LastResult.url = request_path

\* The iteration orders of a variable map: the sequences of the same items.
Orders(context) ==
    { c \in TemplateContexts :
        /\ Len(c) = Len(context)
        /\ \A i \in 1..Len(c) : \E j \in 1..Len(context) : c[i] = context[j] }

TextSubstituted == call.fn = "_substitute_variables" /\ returned # Pending

\* C24: template substitution is order-independent: for every text and every
\* variable map the substituted text is the same for every iteration order of
\* the bindings, also when the printed value of a variable holds the token of
\* another variable.
C24_OrderIndependent ==
    TextSubstituted =>
        \A c \in Orders(call.context) :
            Text(substitute_variables(call.text, c)) = returned

\* "{{a}}-{{b}}" was substituted from a bound to the token of b, then b bound
\* to 1: the value of a was substituted again, which the other order of the
\* same bindings does not do.
C24_Witness ==
    /\ TextSubstituted
    /\ call.text = <<"{{a}}", "-", "{{b}}">>
    /\ call.context = <<Item("a", Text(<<"{{b}}">>)), Item("b", Num(1))>>
    /\ returned = Text(<<"1", "-", "1">>)
    /\ substitute_variables(call.text, <<call.context[2], call.context[1]>>)
           = <<"{{b}}", "-", "1">>

\* Two bindings whose values hold no token were substituted, in one order.
C24_WitnessPlain ==
    /\ TextSubstituted
    /\ call.text = <<"{{a}}", "-", "{{b}}">>
    /\ call.context = <<Item("b", Num(1)), Item("a", Text(<<"v">>))>>
    /\ returned = Text(<<"v", "-", "1">>)

\* A step is being executed: its result is not recorded yet.
StepInProgress == pc \in {"attempt", "backoff"}

\* C25: scenario progress is notified exactly once per executed step, before
\* the first attempt of the step and not once per attempt, with the step name,
\* the 1-based index and the number of steps of the scenario; the indices are
\* 1..k in order, k the number of step results recorded, and a step that is
\* not executed is not notified.
C25_ProgressOncePerStep ==
    progress_callback =>
        /\ Len(progress_log) = Len(steps_results) + (IF StepInProgress THEN 1 ELSE 0)
        /\ \A n \in 1..Len(progress_log) :
               progress_log[n] = <<scenario.steps[n].name, n, Len(scenario.steps)>>
        /\ (StepInProgress /\ Attempts = 0 /\ events = <<>>) =>
               progress_log[Len(progress_log)][2] = idx
        /\ pc = "done" => Len(progress_log) = Len(result.steps)

\* A scenario of two steps returned after its first step, which made two
\* attempts: one notification, (1, 1, 2).
C25_Witness ==
    /\ progress_callback
    /\ pc = "done"
    /\ Len(scenario.steps) = 2
    /\ Len(result.steps) = 1
    /\ Attempts = 2
    /\ progress_log = <<<<1, 1, 2>>>>

\* Both steps of a scenario were executed and notified, in order.
C25_WitnessBoth ==
    /\ progress_callback
    /\ pc = "done"
    /\ Len(result.steps) = 2
    /\ progress_log = <<<<1, 1, 2>>, <<2, 2, 2>>>>

\* A step of the generator from the head of its loop to its sleep.
GeneratorTick == gen_pc \in {"created", "ready"} /\ gen_pc' = "sleeping"

\* C26: each generator tick dispatches exactly one worker if the in-flight
\* counter is below max_concurrent and none otherwise; a tick skipped at the
\* cap is lost, neither queued nor made up later: workers are dispatched at
\* ticks only, one a tick, so that the workers dispatched number the ticks at
\* which the counter was below max_concurrent.
C26_TickDispatchesOne ==
    [][IF GeneratorTick
       THEN IF active_tasks < config.max_concurrent
            THEN dispatched' = dispatched + 1 /\ ~tick_skipped'
            ELSE dispatched' = dispatched /\ tick_skipped'
       ELSE dispatched' = dispatched]_vars

\* The generator sleeps after a tick at the cap, which dispatched nothing,
\* with worker tasks left to dispatch.
C26_Witness ==
    /\ gen_pc = "sleeping"
    /\ tick_skipped
    /\ dispatched >= 1
    /\ dispatched < MaxWorkers
    /\ active_tasks = config.max_concurrent

\* After the skipped tick a worker has completed: a slot is free and nothing
\* is dispatched for it until the next tick.
C26_WitnessNotMadeUp ==
    /\ gen_pc = "sleeping"
    /\ tick_skipped
    /\ dispatched < MaxWorkers
    /\ active_tasks < config.max_concurrent
    /\ finished # <<>>

\* A step of the sampler from the end of its one-second sleep to the next
\* sleep.
SamplingTick == sampler_pc = "ready" /\ sampler_pc' = "sleeping"

C27_WitnessDrainTick ==
    /\ main_pc = "drain_sleep"
    /\ gen_pc = "done"
    /\ sampler_pc = "ready"
    /\ ~sampler_cancel
    /\ Runs("sampler")

\* The value at the 0-based place k of the times in ascending order: fewer
\* than k + 1 times are below it, and at least k + 1 are not above it.
Ranked(times, k) ==
    CHOOSE v \in {times[i] : i \in 1..Len(times)} :
        /\ Cardinality({i \in 1..Len(times) : times[i] < v}) <= k
        /\ Cardinality({i \in 1..Len(times) : times[i] <= v}) > k

Min(a, b) == IF a <= b THEN a ELSE b

SnapshotTaken == call.fn = "_calculate_current_metrics" /\ returned # Pending

\* C28: for every multiset of N recorded response times, a snapshot reports
\* avg, min, max, p50, p95 and p99 all 0 when N = 0; when N > 0, p95 is the
\* time of rank min(floor(0.95 N), N - 1) in ascending order, p99 the one of
\* rank min(floor(0.99 N), N - 1), p50 the median, and
\* min <= p50 <= p95 <= p99 <= max.
C28_Percentiles ==
    SnapshotTaken =>
        LET times == call.response_times
            N == Len(times)
        IN  IF N = 0
            THEN /\ returned.avg.num = 0 /\ returned.p50.num = 0
                 /\ returned.min = 0 /\ returned.max = 0
                 /\ returned.p95 = 0 /\ returned.p99 = 0
            ELSE /\ returned.p95 = Ranked(times, Min((95 * N) \div 100, N - 1))
                 /\ returned.p99 = Ranked(times, Min((99 * N) \div 100, N - 1))
                 /\ returned.p50.num =
                        IF N % 2 = 1 THEN returned.p50.den * Ranked(times, N \div 2)
                        ELSE (returned.p50.den \div 2)
                             * (Ranked(times, (N \div 2) - 1) + Ranked(times, N \div 2))
                 /\ returned.p50.den \in {1, 2}
                 /\ N % 2 = 0 => returned.p50.den = 2
                 /\ returned.min * returned.p50.den <= returned.p50.num
                 /\ returned.p50.num <= returned.p95 * returned.p50.den
                 /\ returned.p95 <= returned.p99
                 /\ returned.p99 <= returned.max

\* A snapshot of 21 response times given unsorted: p95 is the time of rank
\* 19, below p99 and max, and p50 is above min.
C28_Witness ==
    /\ SnapshotTaken
    /\ Len(call.response_times) = 21
    /\ call.response_times[20] = 5
    /\ returned.min = 5
    /\ returned.p95 = 7
    /\ returned.p99 = 9
    /\ returned.max = 9

\* A snapshot of 101 response times: p99 is the time of rank 99, below max.
C28_WitnessLong ==
    /\ SnapshotTaken
    /\ Len(call.response_times) = 101
    /\ returned.p95 = 5
    /\ returned.p99 = 5
    /\ returned.max = 9

\* A snapshot of no response time, and one of two: the median is the mean of
\* the two.
C28_WitnessEmpty ==
    /\ SnapshotTaken
    /\ \/ call.response_times = <<>>
       \/ call.response_times = <<7, 5>> /\ returned.p50 = [num |-> 12, den |-> 2]

\* The generator has paced two iterations of its loop.
Paced == call.fn = "_generate_load" /\ returned # Pending

\* The sleep asked for at elapsed time t = e.num / e.den, as a relation with
\* the interval I = i.num / i.den slept: I * max(tps(t), 1) = 1 in the
\* ramp-up phase, I * target = 1 after it.
FollowsRampUpRule(cfg, e, i) ==
    LET T == cfg.target_tps
        R == cfg.ramp_up_seconds
    IN  IF R > 0 /\ e.num < R * e.den
        THEN IF cfg.distribution = "constant"
             THEN i.num * T = i.den
             ELSE IF cfg.distribution = "linear"
             THEN IF T * e.num >= R * e.den
                  THEN i.num * T * e.num = i.den * R * e.den
                  ELSE i.num = i.den
             ELSE IF T * e.num * e.num >= R * e.den * R * e.den
                  THEN i.num * T * e.num * e.num = i.den * R * e.den * R * e.den
                  ELSE i.num = i.den
        ELSE i.num * T = i.den

\* C29: the pacing of the generator follows the ramp-up rule: in the ramp-up
\* phase (ramp_up > 0 and t < ramp_up) it sleeps 1 / max(tps(t), 1), with
\* tps(t) the target for constant, target * t / ramp_up for linear and
\* target * (t / ramp_up)^2 for exponential, and 1 / target otherwise; the
\* interval lies between 1 / target and 1 second and a later iteration never
\* sleeps longer than an earlier one.
C29_PacingRule ==
    Paced =>
        /\ \A k \in 1..Len(returned) :
              /\ returned[k].num > 0 /\ returned[k].den > 0
              /\ FollowsRampUpRule(call.config, call.elapsed[k], returned[k])
              /\ returned[k].den <= returned[k].num * call.config.target_tps
              /\ returned[k].num <= returned[k].den
        /\ returned[2].num * returned[1].den <= returned[1].num * returned[2].den

\* An exponential ramp-up paced at two readings of the clock: the first
\* sleep is capped at one second, the second is shorter and above 1 / target.
C29_Witness ==
    /\ Paced
    /\ call.config.distribution = "exponential"
    /\ call.config.ramp_up_seconds = 3
    /\ call.config.target_tps = 4
    /\ call.elapsed[1].num = 1
    /\ call.elapsed[2].num = 5
    /\ returned[1] = [num |-> 1, den |-> 1]
    /\ returned[2].num * 4 > returned[2].den
    /\ returned[2].num < returned[2].den

\* A linear ramp-up paced in its ramp and after it: 4/9 of a second at 1.5
\* of 2 seconds, then 1 / target.
C29_WitnessAfterRamp ==
    /\ Paced
    /\ call.config.distribution = "linear"
    /\ call.config.ramp_up_seconds = 2
    /\ call.config.target_tps = 3
    /\ call.elapsed[1].num = 3
    /\ call.elapsed[2].num = 4
    /\ returned[1].num * 9 = returned[1].den * 4
    /\ returned[2] = [num |-> 1, den |-> 3]

\* A test without ramp-up sleeps 1 / target from the start.
C29_WitnessNoRamp ==
    /\ Paced
    /\ call.config.ramp_up_seconds = 0
    /\ call.config.distribution = "exponential"
    /\ call.config.target_tps = 2
    /\ call.elapsed[1].num = 0
    /\ returned[1] = [num |-> 1, den |-> 2]

\* ========================================================= lock properties

\* The instances that acquired the lock and run the application.
Running == {p \in Processes : lock_pc[p] = "running"}

\* C30: process lock mutual exclusion: for any interleaving of two processes
\* calling acquire on the same lock file, at most one of them has returned
\* True while the other is still running: no two live instances both hold
\* the lock.
C30_MutualExclusion == Cardinality(Running) <= 1

\* Two instances started with no lock file both returned True from acquire
\* and run the application; the file names one of them.
C30_Witness ==
    /\ lock_pc[1] = "running"
    /\ lock_pc[2] = "running"
    /\ old_pid = [p \in Processes |-> 0]
    /\ lock_file.exists
    /\ lock_file.text = <<1>>

\* An instance that found another one running refused to start.
C30_WitnessRefused ==
    \E p, q \in Processes :
        /\ lock_pc[p] = "running"
        /\ lock_pc[q] = "refused"
        /\ old_pid[q] = p

\* Two instances removing the same stale lock: the second unlink removed the
\* lock of the instance that was already running.
C30_WitnessStale ==
    \E p, q \in Processes :
        /\ p # q
        /\ lock_pc[p] = "running"
        /\ lock_pc[q] = "write"
        /\ ~lock_file.exists

\* Process p is in release and takes a step.
ReleaseStep(p) ==
    /\ lock_pc[p] \in {"running", "release_read", "release_unlink"}
    /\ lock_pc'[p] # lock_pc[p]

\* C31: release removes the lock file only if it contains the pid of the
\* releasing instance: a step of the release of an instance that does not own
\* the lock (its lock was replaced by another instance) leaves the lock file
\* and its content unchanged.
C31_ReleaseOnlyOwn ==
    [][\A p \in Processes :
          (ReleaseStep(p) /\ lock_file.text # <<p>>) => lock_file' = lock_file]_vars

\* An instance has read its own pid in release and stands before the unlink,
\* while the file, written since by another running instance, names that one.
C31_Witness ==
    \E p, q \in Processes :
        /\ p # q
        /\ lock_pc[p] = "release_unlink"
        /\ lock_pc[q] = "running"
        /\ lock_file = [exists |-> TRUE, text |-> <<q>>]

\* An instance whose lock was replaced released after the replacement: it
\* read the pid of the other and left the file as it was.
C31_WitnessKept ==
    \E p, q \in Processes :
        /\ p # q
        /\ lock_pc[p] = "exited"
        /\ lock_pc[q] = "running"
        /\ lock_file = [exists |-> TRUE, text |-> <<q>>]

\* pid is the pid of a running instance of the application.
RunningInstance(pid) ==
    pid \in Processes /\ lock_pc[pid] \notin {"refused", "exited", "crashed"}

\* C32: acquire returns False and leaves the lock file unchanged when the file
\* names the pid of a running instance of the application; when the file
\* names a pid that no longer exists or a running process that is not the
\* application, or has a content that is no pid, acquire goes on to reclaim
\* the lock and does not end in an exception.
C32_ReclaimsStaleLock ==
    [][\A p \in Processes :
          /\ (lock_pc[p] = "pid_exists" /\ lock_pc'[p] # lock_pc[p]) =>
                IF RunningInstance(old_pid[p])
                THEN lock_pc'[p] = "refused" /\ lock_file' = lock_file
                ELSE lock_pc'[p] = "unlink_stale"
          /\ (lock_pc[p] = "read" /\ lock_file.exists /\ lock_file.text = <<>>
               /\ lock_pc'[p] # lock_pc[p]) => lock_pc'[p] = "unlink_corrupted"
          /\ lock_pc'[p] # "crashed"]_vars

\* An instance found the pid of the editor in the lock file of an instance
\* that had crashed, and refused to start.
C32_Witness ==
    \E p \in Processes :
        /\ lock_pc[p] = "refused"
        /\ old_pid[p] \in ForeignPids
        /\ ~RunningInstance(old_pid[p])
        /\ lock_file = [exists |-> TRUE, text |-> <<old_pid[p]>>]

\* An instance found the pid of the server in the lock file, reclaimed the
\* lock and runs.
C32_WitnessReclaimed ==
    \E p \in Processes :
        /\ lock_pc[p] = "running"
        /\ old_pid[p] = MaxProcesses + 1
        /\ lock_file = [exists |-> TRUE, text |-> <<p>>]

\* Two instances reclaiming the same stale lock: the second unlink of one of
\* them found no file and the exception left acquire.
C32_WitnessRaised ==
    \E p, q \in Processes :
        /\ lock_pc[p] = "crashed"
        /\ lock_pc[q] \in {"write", "running"}

\* The ends of the attempts of the step of the latest result, in order.
AttemptEndsOf(evs) == SelectSeq(evs, LAMBDA e : e \in AttemptEnds)

\* C33: every step that execute_scenario reaches is attempted at least once:
\* at least one HTTP request is issued before its StepResult is committed,
\* whatever integer the retry field of the step holds, and an error StepResult
\* carries the error message of an attempt that ran.
C33_AttemptedAtLeastOnce ==
    Committed =>
        /\ Attempts >= 1
        /\ Requests >= 1
        /\ LastResult.status = ERROR =>
              \E i \in 1..Len(AttemptEndsOf(events)) :
                  AttemptEndsOf(events)[i] = LastResult.error_message

\* A step with retry = -1 was committed as an error without an attempt, a
\* request or an error message.
C33_Witness ==
    /\ Committed
    /\ LastStep.retry = -1
    /\ Attempts = 0
    /\ Requests = 0
    /\ LastResult.status = ERROR
    /\ LastResult.error_message = "None"

\* A step without retry whose one attempt timed out was committed as an error
\* with the message of that attempt.
C33_WitnessAttempted ==
    /\ Committed
    /\ LastStep.retry = 0
    /\ Attempts = 1
    /\ Requests = 1
    /\ LastResult.status = ERROR
    /\ LastResult.error_message = TimeoutMessage

\* =================================================== engine reuse properties

\* The workers that have started and not finished.
StartedNotFinished == {w \in Workers : worker[w] \in {"in_flight", "ready"}}

\* The workers dispatched in the current run that have finished.
FinishedInRun == {w \in Workers : w > run_start /\ worker[w] = "done"}

\* C34: across runs of execute_load_test on one LoadTestEngine, a run started
\* while workers abandoned by the drain deadline of the run before are in
\* flight included, the in-flight counter is never negative and equals the
\* number of workers started and not finished, and the totals of a run count
\* only workers dispatched in that run.
C34_CountersAcrossRuns ==
    /\ active_tasks >= 0
    /\ active_tasks = Cardinality(StartedNotFinished)
    /\ main_pc # "start" => total_requests = Cardinality(FinishedInRun)

\* In a second run, a worker abandoned by the first has finished: the
\* in-flight counter is negative and the totals of the second run count it.
C34_Witness ==
    /\ run_start > 0
    /\ main_pc \notin {"start", "done"}
    /\ active_tasks = -1
    /\ StartedNotFinished = {}
    /\ FinishedInRun = {}
    /\ total_requests = 1

\* A second run returned a result that counts a worker of the first run.
C34_WitnessResult ==
    /\ run_start > 0
    /\ main_pc = "done"
    /\ Cardinality(FinishedInRun) = 1
    /\ load_result.total_requests = 2
    /\ active_tasks = -1

\* ======================================================= snapshot properties

\* The counts of a snapshot add up.
Consistent(m) ==
    m.total_requests = m.successful_requests + m.failed_requests + m.error_requests

\* C35: every LoadMetrics snapshot is consistent: the tasks being interrupted
\* at their suspension points only, every snapshot, in the history of the
\* engine and in the timeline of the result, has total_requests =
\* successful_requests + failed_requests + error_requests.
C35_SnapshotsConsistent ==
    /\ \A k \in 1..Len(metrics_history) : Consistent(metrics_history[k])
    /\ \A k \in 1..Len(load_result.metrics_timeline) :
          Consistent(load_result.metrics_timeline[k])

\* A snapshot taken while one worker had finished, with an exception, and
\* another was in flight.
C35_Witness ==
    /\ Len(metrics_history) = 1
    /\ metrics_history[1].total_requests = 1
    /\ metrics_history[1].error_requests = 1
    /\ metrics_history[1].active_connections = 1
    /\ \E k \in 1..Len(finished) : finished[k].raised

\* The counts of snapshot n are those of snapshot m or greater.
CountsNotLess(m, n) ==
    /\ m.total_requests <= n.total_requests
    /\ m.successful_requests <= n.successful_requests
    /\ m.failed_requests <= n.failed_requests
    /\ m.error_requests <= n.error_requests

\* The timeline is monotone from each snapshot to the next.
Monotone(timeline) ==
    \A k \in 1..(Len(timeline) - 1) :
        /\ timeline[k].elapsed_seconds < timeline[k + 1].elapsed_seconds
        /\ CountsNotLess(timeline[k], timeline[k + 1])

C37_CallbackContained ==
    /\ sampler_pc # "raised"
    /\ main_pc # "raised"

\* execute_load_test has raised the exception of the callback: the first tick
\* was the last, its snapshot is in the history, a worker finished after it
\* and no result was returned.
C37_Witness ==
    /\ main_pc = "raised"
    /\ sampler_pc = "raised"
    /\ Len(metrics_history) = 1
    /\ metrics_history[1].total_requests = 0
    /\ total_requests = 1
    /\ load_result = NoLoadResult

\* The sampler ended at its first tick with the test still in its duration.
C37_WitnessNoLaterTick ==
    /\ sampler_pc = "raised"
    /\ main_pc = "sleeping"
    /\ Len(metrics_history) = 1

\* ================================================ steps without assertions

\* The positions in events of the responses received for the step.
ResponsesAt == {i \in 1..Len(events) : events[i] = "response"}

\* C38: the status code of a response counts through the assertions only: a
\* step without assertions whose request receives a response, whatever its
\* status code, is committed as success on that attempt with
\* assertions_passed = assertions_failed = 0, is not retried, and does not
\* stop the scenario.
C38_UnassertedStepSucceeds ==
    (Committed /\ LastStep.assertions = <<>> /\ ResponsesAt # {}) =>
        /\ LastResult.status = SUCCESS
        /\ LastResult.assertions_passed = 0
        /\ LastResult.assertions_failed = 0
        /\ Cardinality(ResponsesAt) = 1
        /\ \A i \in ResponsesAt : \A e \in AttemptEndsAt : e > i => e = Len(events)
        /\ LastIndex < Len(scenario.steps) => pc = "loop"

\* A step without assertions received a response and was committed as error:
\* its extraction path has a part that is a digit and not a decimal, the body
\* is a list, and get_field_value raised.
C38_Witness ==
    /\ Committed
    /\ LastStep.assertions = <<>>
    /\ LastStep.retry = 0
    /\ events = <<"substitute", "request", "response", "extract", "invalid literal for int()">>
    /\ LastResult.status = ERROR
    /\ LastResult.error_message = "invalid literal for int()"
    /\ pc = "return"

\* A step without assertions and with delay_after null received a response
\* at each of two attempts.
C38_WitnessRetried ==
    /\ Committed
    /\ LastStep.assertions = <<>>
    /\ LastStep.delay_after = None
    /\ Cardinality(ResponsesAt) = 2
    /\ LastResult.status = ERROR

\* The first step, without assertions, received status 500 and was committed
\* as success; the scenario is at its second step.
C38_WitnessServerError ==
    /\ pc = "loop"
    /\ idx = 2
    /\ scenario.steps[1].assertions = <<>>
    /\ ~scenario.steps[1].skip_on_failure
    /\ steps_results[1].status = SUCCESS
    /\ steps_results[1].status_code = 500
    /\ steps_results[1].assertions_passed = 0
    /\ steps_results[1].assertions_failed = 0
    /\ scenario_status = SUCCESS

\* ====================================================== extraction, bindings

\* The names bound in a context.
BoundNames(context) == {context[i].key : i \in 1..Len(context)}

\* The binding of a name is the same in two contexts: unbound in both, or
\* bound to the same value.
SameBinding(before, after, k) ==
    /\ items_has(before, k) = items_has(after, k)
    /\ items_get(before, k) = items_get(after, k)

\* The step of the for loop processed a response to its end in this step of
\* the execution, and its result is appended.
ResponseProcessed ==
    /\ Len(steps_results') = Len(steps_results) + 1
    /\ steps_results'[Len(steps_results')].status \in {SUCCESS, FAILURE}

\* C39: extraction never binds a variable to absent and never removes a
\* binding: no name of the context is bound to None; the names bound in the
\* context only grow; and when the response of a step is processed, a target
\* whose path resolved to absent (it is not among the extracted variables)
\* keeps the binding it had, or stays unbound, and every other target is bound
\* to the value extracted.
C39_ExtractionKeepsBindings ==
    [][/\ BoundNames(variables) \subseteq BoundNames(variables')
       /\ \A i \in 1..Len(variables') : variables'[i].val # None
       /\ ResponseProcessed =>
             LET extracted == steps_results'[Len(steps_results')].extracted_variables
             IN  \A j \in 1..Len(scenario.steps[idx].extract) :
                   LET k == scenario.steps[idx].extract[j].key
                   IN  IF items_has(extracted, k)
                       THEN /\ items_get(extracted, k) # None
                            /\ items_get(variables', k) = items_get(extracted, k)
                       ELSE SameBinding(variables, variables', k)]_vars

\* An extracting step was answered with a body in which the path resolves to
\* absent, with the assertion on the status passing: nothing was extracted and
\* token is bound to its initial value.
C39_Witness ==
    /\ Committed
    /\ LastStep.extract = ExtractToken
    /\ LastResult.status = SUCCESS
    /\ LastResult.status_code = 200
    /\ LastResult.extracted_variables = <<>>
    /\ variables = <<Item("token", Num(0))>>

\* The same with token unbound before the step: it stays unbound.
C39_WitnessUnbound ==
    /\ Committed
    /\ LastStep.extract = ExtractToken
    /\ LastResult.status = SUCCESS
    /\ LastResult.extracted_variables = <<>>
    /\ variables = <<>>

\* The second step resolved its path to absent after the first had extracted
\* token: the value of the first step is kept.
C39_WitnessEarlierExtraction ==
    /\ Len(steps_results) = 2
    /\ steps_results[1].extracted_variables = <<Item("token", Num(2))>>
    /\ scenario.steps[2].extract = ExtractToken
    /\ steps_results[2].status = SUCCESS
    /\ steps_results[2].extracted_variables = <<>>
    /\ variables = <<Item("token", Num(2))>>

====
